---- MODULE Spec2Model ----
(***************************************************************************)
(* A model of gopandas: the cell value coercer (inferType), the DataFrame  *)
(* container, the OOXML (.xlsx) sheet decoder and the legacy (.xls)        *)
(* record stream reader with its OLE2 locator.                             *)
(*                                                                         *)
(* Go strings are modelled as sequences of one-character strings, so that  *)
(* trimming, suffix tests and number parsing work on the characters, and   *)
(* byte buffers as sequences of integers 0..255.                           *)
(***************************************************************************)
EXTENDS Integers, Sequences, FiniteSets, TLC

(***************************************************************************)
(* Bounds of the model.                                                    *)
(***************************************************************************)
\* longest enumerated cell text handed to inferType
MaxTextLen == 3
\* most cells in a generated worksheet row, most rows in a generated worksheet
MaxCells == 2
MaxSheetRows == 3
\* most records after the BOF record of a generated legacy stream, and most
\* bytes cut off its end
MaxRecords == 2
MaxCut == 2
\* operations in one run of the DataFrame API
MaxOps == 4
\* most records (header included) in a CSV file that is written back
MaxCsvRecords == 3

(***************************************************************************)
(* Characters and strings.                                                 *)
(***************************************************************************)
Digits == {"0", "1", "2", "3", "4", "5", "6", "7", "8", "9"}

DigitVal == [c \in Digits |->
    CASE c = "0" -> 0 [] c = "1" -> 1 [] c = "2" -> 2 [] c = "3" -> 3
      [] c = "4" -> 4 [] c = "5" -> 5 [] c = "6" -> 6 [] c = "7" -> 7
      [] c = "8" -> 8 [] c = "9" -> 9]

\* unicode.IsSpace restricted to the characters the model uses
IsSpace(c) == c \in {" ", "\t", "\n", "\r"}

\* unicode.ToLower on ASCII
ToLowerChar(c) ==
    CASE c = "A" -> "a" [] c = "B" -> "b" [] c = "C" -> "c" [] c = "D" -> "d"
      [] c = "E" -> "e" [] c = "F" -> "f" [] c = "G" -> "g" [] c = "H" -> "h"
      [] c = "I" -> "i" [] c = "J" -> "j" [] c = "K" -> "k" [] c = "L" -> "l"
      [] c = "M" -> "m" [] c = "N" -> "n" [] c = "O" -> "o" [] c = "P" -> "p"
      [] c = "Q" -> "q" [] c = "R" -> "r" [] c = "S" -> "s" [] c = "T" -> "t"
      [] c = "U" -> "u" [] c = "V" -> "v" [] c = "W" -> "w" [] c = "X" -> "x"
      [] c = "Y" -> "y" [] c = "Z" -> "z"
      [] OTHER -> c

ToLower(s) == [i \in 1..Len(s) |-> ToLowerChar(s[i])]

(***************************************************************************)
(* Bytes and characters.  string(bytes) keeps every byte: a printable      *)
(* ASCII byte is its character, tab, newline and carriage return are       *)
(* theirs, and every other byte b (and the backquote, byte 96) is the     *)
(* one-element token "\x<b>".                                              *)
(***************************************************************************)
\* the characters of bytes 32..126, in byte order
AsciiPrintable ==
    << " ", "!", "\"", "#", "$", "%", "&", "'", "(", ")", "*", "+",
       ",", "-", ".", "/", "0", "1", "2", "3", "4", "5", "6", "7",
       "8", "9", ":", ";", "<", "=", ">", "?", "@", "A", "B", "C",
       "D", "E", "F", "G", "H", "I", "J", "K", "L", "M", "N", "O",
       "P", "Q", "R", "S", "T", "U", "V", "W", "X", "Y", "Z", "[",
       "\\", "]", "^", "_", "\\x96", "a", "b", "c", "d", "e", "f", "g",
       "h", "i", "j", "k", "l", "m", "n", "o", "p", "q", "r", "s",
       "t", "u", "v", "w", "x", "y", "z", "{", "|", "}", "~" >>

Chr(b) ==
    IF b >= 32 /\ b <= 126 THEN AsciiPrintable[b - 31]
    ELSE IF b = 9 THEN "\t"
    ELSE IF b = 10 THEN "\n"
    ELSE IF b = 13 THEN "\r"
    ELSE "\\x" \o ToString(b)

Ord(c) == CHOOSE b \in 0..255 : Chr(b) = c

\* string(b) for a byte slice b
BytesToString(bs) == [i \in 1..Len(bs) |-> Chr(bs[i])]

\* a < b for Go strings: byte-wise lexicographic order
RECURSIVE StrLess(_, _)
StrLess(a, b) ==
    IF b = <<>> THEN FALSE
    ELSE IF a = <<>> THEN TRUE
    ELSE IF Head(a) = Head(b) THEN StrLess(Tail(a), Tail(b))
    ELSE Ord(Head(a)) < Ord(Head(b))

RECURSIVE TrimLeft(_)
TrimLeft(s) == IF s # <<>> /\ IsSpace(Head(s)) THEN TrimLeft(Tail(s)) ELSE s

RECURSIVE TrimRight(_)
TrimRight(s) ==
    IF s # <<>> /\ IsSpace(s[Len(s)]) THEN TrimRight(SubSeq(s, 1, Len(s) - 1)) ELSE s

TrimSpace(s) == TrimRight(TrimLeft(s))

HasSuffix(s, suffix) ==
    /\ Len(s) >= Len(suffix)
    /\ SubSeq(s, Len(s) - Len(suffix) + 1, Len(s)) = suffix

AllDigits(s) == \A i \in 1..Len(s) : s[i] \in Digits

RECURSIVE DigitsVal(_)
DigitsVal(s) ==
    IF s = <<>> THEN 0
    ELSE DigitsVal(SubSeq(s, 1, Len(s) - 1)) * 10 + DigitVal[s[Len(s)]]

\* the sign a leading "+" or "-" gives, and the text after it
SignOf(s) == IF s # <<>> /\ s[1] = "-" THEN -1 ELSE 1
Unsigned(s) == IF s # <<>> /\ s[1] \in {"+", "-"} THEN Tail(s) ELSE s

(***************************************************************************)
(* strconv.Atoi: an optional sign and one or more decimal digits.  The     *)
(* int64 range error is out of reach of the bounded digit strings.         *)
(***************************************************************************)
Atoi(s) ==
    LET body == Unsigned(s) IN
    IF body # <<>> /\ AllDigits(body)
    THEN [ok |-> TRUE, v |-> SignOf(s) * DigitsVal(body)]
    ELSE [ok |-> FALSE, v |-> 0]

(***************************************************************************)
(* Dynamically typed cell values: nil, int, float64, bool, string.         *)
(* A finite float64 parsed from a short decimal is identified by its sign  *)
(* and its normalised decimal mantissa and exponent (distinct short        *)
(* decimals are distinct float64 values); s names Inf and NaN.             *)
(***************************************************************************)
Null == [tag |-> "Null", neg |-> FALSE, n |-> 0, e |-> 0, s |-> <<>>]
IntV(i) == [tag |-> "Int", neg |-> FALSE, n |-> i, e |-> 0, s |-> <<>>]
BoolV(b) == [tag |-> "Bool", neg |-> FALSE, n |-> IF b THEN 1 ELSE 0, e |-> 0, s |-> <<>>]
TextV(t) == [tag |-> "Text", neg |-> FALSE, n |-> 0, e |-> 0, s |-> t]
FloatV(neg, m, e) == [tag |-> "Float", neg |-> neg, n |-> m, e |-> e, s |-> <<>>]
InfV(neg) == [tag |-> "Float", neg |-> neg, n |-> 0, e |-> 0, s |-> <<"I", "n", "f">>]
NaNV == [tag |-> "Float", neg |-> FALSE, n |-> 0, e |-> 0, s |-> <<"N", "a", "N">>]

RECURSIVE NormFloat(_, _, _)
NormFloat(neg, m, e) ==
    IF m = 0 THEN FloatV(neg, 0, 0)
    ELSE IF m % 10 = 0 THEN NormFloat(neg, m \div 10, e + 1)
    ELSE FloatV(neg, m, e)

\* index of the first exponent marker of s, 0 when there is none
ExpMark(s) ==
    IF \E i \in 1..Len(s) : s[i] \in {"e", "E"}
    THEN CHOOSE i \in 1..Len(s) :
            /\ s[i] \in {"e", "E"}
            /\ \A j \in 1..(i - 1) : s[j] \notin {"e", "E"}
    ELSE 0

\* index of the first decimal point of s, 0 when there is none
DotMark(s) ==
    IF \E i \in 1..Len(s) : s[i] = "."
    THEN CHOOSE i \in 1..Len(s) : s[i] = "." /\ \A j \in 1..(i - 1) : s[j] # "."
    ELSE 0

(***************************************************************************)
(* strconv.ParseFloat(s, 64) on decimal text: [sign] digits [. digits]     *)
(* [e|E [sign] digits] with at least one mantissa digit, or [sign] inf,    *)
(* [sign] infinity, nan in any case.  Hexadecimal mantissas ("0x") and     *)
(* underscores do not occur in the texts of the model, and the bounded     *)
(* exponents stay far from the float64 range error.                        *)
(***************************************************************************)
ParseFloat(s) ==
    LET neg   == s # <<>> /\ s[1] = "-"
        body  == Unsigned(s)
        low   == ToLower(body)
        em    == ExpMark(body)
        mant  == IF em = 0 THEN body ELSE SubSeq(body, 1, em - 1)
        etxt  == IF em = 0 THEN <<>> ELSE SubSeq(body, em + 1, Len(body))
        dm    == DotMark(mant)
        ipart == IF dm = 0 THEN mant ELSE SubSeq(mant, 1, dm - 1)
        fpart == IF dm = 0 THEN <<>> ELSE SubSeq(mant, dm + 1, Len(mant))
        eok   == em = 0 \/ (Unsigned(etxt) # <<>> /\ AllDigits(Unsigned(etxt)))
        eval  == IF em = 0 THEN 0 ELSE SignOf(etxt) * DigitsVal(Unsigned(etxt))
        mok   == /\ AllDigits(ipart) /\ AllDigits(fpart)
                 /\ Len(ipart) + Len(fpart) > 0
    IN  IF low \in {<<"i", "n", "f">>, <<"i", "n", "f", "i", "n", "i", "t", "y">>}
        THEN [ok |-> TRUE, v |-> InfV(neg)]
        ELSE IF ToLower(s) = <<"n", "a", "n">>
        THEN [ok |-> TRUE, v |-> NaNV]
        ELSE IF mok /\ eok
        THEN [ok |-> TRUE,
              v  |-> NormFloat(neg, DigitsVal(ipart \o fpart), eval - Len(fpart))]
        ELSE [ok |-> FALSE, v |-> Null]

(***************************************************************************)
(* strconv.ParseBool: exactly the twelve accepted spellings.               *)
(***************************************************************************)
ParseBool(s) ==
    IF s \in {<<"1">>, <<"t">>, <<"T">>, <<"T", "R", "U", "E">>,
              <<"t", "r", "u", "e">>, <<"T", "r", "u", "e">>}
    THEN [ok |-> TRUE, v |-> TRUE]
    ELSE IF s \in {<<"0">>, <<"f">>, <<"F">>, <<"F", "A", "L", "S", "E">>,
                   <<"f", "a", "l", "s", "e">>, <<"F", "a", "l", "s", "e">>}
    THEN [ok |-> TRUE, v |-> FALSE]
    ELSE [ok |-> FALSE, v |-> FALSE]

\* inferType with the boolean attempt moved ahead of the numeric ones
inferTypeBoolFirst(v) ==
    LET t == TrimSpace(v) IN
    IF t = <<>> THEN Null
    ELSE IF ParseBool(t).ok THEN BoolV(ParseBool(t).v)
    ELSE IF Atoi(t).ok THEN IntV(Atoi(t).v)
    ELSE IF ParseFloat(t).ok THEN ParseFloat(t).v
    ELSE TextV(t)

(***************************************************************************)
(* inferType: the coercion of a cell's text.                               *)
(***************************************************************************)
inferType(value) ==
    LET t == TrimSpace(value) IN
    IF t = <<>> THEN Null
    ELSE IF Atoi(t).ok THEN IntV(Atoi(t).v)
    ELSE IF ParseFloat(t).ok THEN ParseFloat(t).v
    ELSE IF ParseBool(t).ok THEN BoolV(ParseBool(t).v)
    ELSE TextV(t)

(***************************************************************************)
(* Go slices.  mem is the heap of backing arrays (array k is mem[k], its   *)
(* length is the capacity); a slice is an array and a length, array 0      *)
(* standing for the empty backing store of a nil or make(_, 0) slice.      *)
(* Every slice of the program starts at offset 0 of its array.             *)
(***************************************************************************)
NilSlice == [arr |-> 0, len |-> 0]

Cap(mem, s) == IF s.arr = 0 THEN 0 ELSE Len(mem[s.arr])

Elems(mem, s) == [i \in 1..s.len |-> mem[s.arr][i]]

\* runtime.growslice for the 16- and 24-byte elements of index and data,
\* growing by one element from a capacity below 256
GrowCap(old) == IF old = 0 THEN 1 ELSE 2 * old

\* append(s, x): in place when capacity is left, else into a new array
GoAppend(mem, s, x, zero) ==
    IF s.len < Cap(mem, s)
    THEN [mem |-> [mem EXCEPT ![s.arr][s.len + 1] = x],
          s   |-> [arr |-> s.arr, len |-> s.len + 1]]
    ELSE LET grown == [i \in 1..GrowCap(Cap(mem, s)) |->
                          IF i <= s.len THEN mem[s.arr][i]
                          ELSE IF i = s.len + 1 THEN x ELSE zero]
         IN  [mem |-> Append(mem, grown),
              s   |-> [arr |-> Len(mem) + 1, len |-> s.len + 1]]

\* make([]T, n) followed by copy(_, elems) with n = len(elems)
MakeCopy(mem, elems) ==
    IF elems = <<>> THEN [mem |-> mem, s |-> NilSlice]
    ELSE [mem |-> Append(mem, elems), s |-> [arr |-> Len(mem) + 1, len |-> Len(elems)]]

(***************************************************************************)
(* DataFrame: columns, data (slice of rows) and index (slice of values).   *)
(***************************************************************************)
NoRow == <<>>

NewDataFrame(columns) == [columns |-> columns, data |-> NilSlice, index |-> NilSlice]

Rows(mem, df) == Elems(mem, df.data)

Shape(mem, df) == <<df.data.len, Len(df.columns)>>

Columns(df) == df.columns

ErrRowLength == "row length does not match columns length"

\* an AddRow that appends whatever it is given
AddRowUnchecked(mem, df, row) ==
    LET a == GoAppend(mem, df.data, row, NoRow)
        b == GoAppend(a.mem, df.index, IntV(a.s.len - 1), Null)
    IN  [mem |-> b.mem,
         df  |-> [df EXCEPT !.data = a.s, !.index = b.s],
         err |-> "nil"]

AddRow(mem, df, row) ==
    IF Len(row) # Len(df.columns)
    THEN [mem |-> mem, df |-> df, err |-> ErrRowLength]
    ELSE LET a == GoAppend(mem, df.data, row, NoRow)
             b == GoAppend(a.mem, df.index, IntV(a.s.len - 1), Null)
         IN  [mem |-> b.mem,
              df  |-> [df EXCEPT !.data = a.s, !.index = b.s],
              err |-> "nil"]

\* df.Head(n); a negative n makes df.data[:n] panic
HeadPanics(df, n) == n < 0

DataFrameHead(df, n) ==
    LET k == IF n > df.data.len THEN df.data.len ELSE n
    IN  [columns |-> df.columns,
         data    |-> [arr |-> df.data.arr, len |-> k],
         index   |-> [arr |-> df.index.arr, len |-> k]]

\* result.data = append(result.data, row); result.index = append(result.index, idx)
PushRow(st, row, idx) ==
    LET a == GoAppend(st.mem, st.df.data, row, NoRow)
        b == GoAppend(a.mem, st.df.index, idx, Null)
    IN  [mem |-> b.mem, df |-> [st.df EXCEPT !.data = a.s, !.index = b.s]]

\* index of the first column called name, 0 when there is none (colIndex == -1)
ColIndex(df, name) ==
    IF \E i \in 1..Len(df.columns) : df.columns[i] = name
    THEN CHOOSE i \in 1..Len(df.columns) :
            /\ df.columns[i] = name
            /\ \A j \in 1..(i - 1) : df.columns[j] # name
    ELSE 0

(***************************************************************************)
(* Filter, Select, Sort, GroupBy.  Each takes the heap and returns the     *)
(* heap with what it allocated; has is FALSE where the Go function         *)
(* returns a nil *DataFrame.                                               *)
(***************************************************************************)
\* the predicates a caller passes to Filter, by name
Pred(p, row) ==
    CASE p = "all" -> TRUE
      [] p = "none" -> FALSE
      [] p = "firstNotNil" -> row # <<>> /\ row[1] # Null
      [] p = "firstIsInt" -> row # <<>> /\ row[1].tag = "Int"

RECURSIVE FilterFrom(_, _, _, _, _)
FilterFrom(st, rows, index, p, i) ==
    IF i > Len(rows) THEN st
    ELSE FilterFrom(IF Pred(p, rows[i]) THEN PushRow(st, rows[i], index[i]) ELSE st,
                    rows, index, p, i + 1)

FilterAll(mem, df, p) ==
    FilterFrom([mem |-> mem, df |-> NewDataFrame(df.columns)],
               Rows(mem, df), Elems(mem, df.index), "all", 1)

Filter(mem, df, p) ==
    FilterFrom([mem |-> mem, df |-> NewDataFrame(df.columns)],
               Rows(mem, df), Elems(mem, df.index), p, 1)

ErrColumn == "column not found"

RECURSIVE SelectFrom(_, _, _, _, _)
SelectFrom(st, rows, index, colIndices, i) ==
    IF i > Len(rows) THEN st
    ELSE SelectFrom(PushRow(st, [j \in 1..Len(colIndices) |-> rows[i][colIndices[j]]],
                            index[i]),
                    rows, index, colIndices, i + 1)

Select(mem, df, columns) ==
    IF \E i \in 1..Len(columns) : ColIndex(df, columns[i]) = 0
    THEN [mem |-> mem, df |-> NewDataFrame(<<>>), err |-> ErrColumn]
    ELSE LET st == SelectFrom([mem |-> mem, df |-> NewDataFrame(columns)],
                              Rows(mem, df), Elems(mem, df.index),
                              [i \in 1..Len(columns) |-> ColIndex(df, columns[i])], 1)
         IN  [mem |-> st.mem, df |-> st.df, err |-> "nil"]

(***************************************************************************)
(* float64 order on the values of the model.                               *)
(***************************************************************************)
IsNaN(x) == x.tag = "Float" /\ x.s = NaNV.s
IsInf(x) == x.tag = "Float" /\ x.s = InfV(FALSE).s

RECURSIVE NumDigits(_)
NumDigits(m) == IF m < 10 THEN 1 ELSE 1 + NumDigits(m \div 10)

RECURSIVE Pow10(_)
Pow10(k) == IF k <= 0 THEN 1 ELSE 10 * Pow10(k - 1)

\* -1, 0, 1: the sign of a float that is not NaN
FloatSign(x) == IF x.n = 0 /\ ~IsInf(x) THEN 0 ELSE IF x.neg THEN -1 ELSE 1

\* |a| < |b| for non-zero floats that are not NaN
MagLess(a, b) ==
    IF IsInf(a) THEN FALSE
    ELSE IF IsInf(b) THEN TRUE
    ELSE LET oa == NumDigits(a.n) + a.e
             ob == NumDigits(b.n) + b.e
             e  == IF a.e < b.e THEN a.e ELSE b.e
         IN  IF oa # ob THEN oa < ob
             ELSE a.n * Pow10(a.e - e) < b.n * Pow10(b.e - e)

FloatLess(a, b) ==
    IF IsNaN(a) \/ IsNaN(b) THEN FALSE
    ELSE IF FloatSign(a) # FloatSign(b) THEN FloatSign(a) < FloatSign(b)
    ELSE IF FloatSign(a) = 0 THEN FALSE
    ELSE IF FloatSign(a) > 0 THEN MagLess(a, b)
    ELSE MagLess(b, a)

compareValues(a, b) ==
    IF a = Null /\ b = Null THEN 0
    ELSE IF a = Null THEN -1
    ELSE IF b = Null THEN 1
    ELSE IF a.tag = "Int" /\ b.tag = "Int"
    THEN (IF a.n < b.n THEN -1 ELSE IF a.n > b.n THEN 1 ELSE 0)
    ELSE IF a.tag = "Float" /\ b.tag = "Float"
    THEN (IF FloatLess(a, b) THEN -1 ELSE IF FloatLess(b, a) THEN 1 ELSE 0)
    ELSE IF a.tag = "Text" /\ b.tag = "Text"
    THEN (IF StrLess(a.s, b.s) THEN -1 ELSE IF StrLess(b.s, a.s) THEN 1 ELSE 0)
    ELSE 0

\* the less function Sort hands to sort.Slice
SortLess(x, y, colIndex, ascending) ==
    IF ascending THEN compareValues(x[colIndex], y[colIndex]) < 0
    ELSE compareValues(x[colIndex], y[colIndex]) > 0

\* the inner loop of insertion sort: sink element j while it is less than j-1
RECURSIVE Sink(_, _, _, _)
Sink(rows, j, colIndex, ascending) ==
    IF j > 1 /\ SortLess(rows[j], rows[j - 1], colIndex, ascending)
    THEN Sink([rows EXCEPT ![j] = rows[j - 1], ![j - 1] = rows[j]],
              j - 1, colIndex, ascending)
    ELSE rows

\* sort.Slice on at most 12 elements is a plain insertion sort
RECURSIVE InsertionSort(_, _, _, _)
InsertionSort(rows, i, colIndex, ascending) ==
    IF i > Len(rows) THEN rows
    ELSE InsertionSort(Sink(rows, i, colIndex, ascending), i + 1, colIndex, ascending)

Sort(mem, df, column, ascending) ==
    IF ColIndex(df, column) = 0
    THEN [mem |-> mem, df |-> NewDataFrame(<<>>), err |-> ErrColumn]
    ELSE LET d == MakeCopy(mem, InsertionSort(Rows(mem, df), 2,
                                              ColIndex(df, column), ascending))
             x == MakeCopy(d.mem, Elems(mem, df.index))
         IN  [mem |-> x.mem,
              df  |-> [columns |-> df.columns, data |-> d.s, index |-> x.s],
              err |-> "nil"]

(***************************************************************************)
(* GroupBy.  The result map is kept as a sequence of [key, df] in order of *)
(* first occurrence.  Map keys are compared as Go compares interface       *)
(* values: a NaN key equals nothing, not even itself, so groups[key] is    *)
(* still nil after the insertion and the append dereferences nil.          *)
(***************************************************************************)
KeyEq(a, b) ==
    IF a.tag = "Float" /\ b.tag = "Float"
    THEN ~IsNaN(a) /\ ~IsNaN(b) /\ ~FloatLess(a, b) /\ ~FloatLess(b, a)
    ELSE a = b

GroupIndex(groups, key) ==
    IF \E g \in 1..Len(groups) : KeyEq(groups[g].key, key)
    THEN CHOOSE g \in 1..Len(groups) : KeyEq(groups[g].key, key)
    ELSE 0

RECURSIVE GroupFrom(_, _, _, _, _, _)
GroupFrom(st, columns, rows, index, colIndex, i) ==
    IF i > Len(rows) THEN st
    ELSE LET key    == rows[i][colIndex]
             groups == IF GroupIndex(st.groups, key) = 0
                       THEN Append(st.groups, [key |-> key, df |-> NewDataFrame(columns)])
                       ELSE st.groups
             g      == GroupIndex(groups, key)
             pushed == PushRow([mem |-> st.mem, df |-> groups[g].df], rows[i], index[i])
         IN  GroupFrom([mem    |-> pushed.mem,
                        groups |-> [groups EXCEPT ![g].df = pushed.df]],
                       columns, rows, index, colIndex, i + 1)

GroupByPanics(mem, df, column) ==
    /\ ColIndex(df, column) # 0
    /\ \E i \in 1..df.data.len : IsNaN(Rows(mem, df)[i][ColIndex(df, column)])

GroupBy(mem, df, column) ==
    IF ColIndex(df, column) = 0
    THEN [mem |-> mem, groups |-> <<>>, err |-> ErrColumn]
    ELSE LET st == GroupFrom([mem |-> mem, groups |-> <<>>], df.columns,
                             Rows(mem, df), Elems(mem, df.index),
                             ColIndex(df, column), 1)
         IN  [mem |-> st.mem, groups |-> st.groups, err |-> "nil"]

(***************************************************************************)
(* Text constants of the program.                                          *)
(***************************************************************************)
ExtXlsx == <<".", "x", "l", "s", "x">>
ExtXls == <<".", "x", "l", "s">>
DefaultSheet == <<"s", "h", "e", "e", "t", "1", ".", "x", "m", "l">>
DotXml == <<".", "x", "m", "l">>
SharedStringsPart ==
    <<"x", "l", "/", "s", "h", "a", "r", "e", "d", "S", "t", "r", "i", "n", "g", "s",
      ".", "x", "m", "l">>
WorksheetDir == <<"x", "l", "/", "w", "o", "r", "k", "s", "h", "e", "e", "t", "s", "/">>
TypeShared == <<"s">>
TypeInline == <<"i", "n", "l", "i", "n", "e", "S", "t", "r">>

\* strconv.Itoa / the %d verb for a non-negative integer
RECURSIVE Itoa(_)
Itoa(i) ==
    LET d == CHOOSE c \in Digits : DigitVal[c] = i % 10
    IN  IF i < 10 THEN <<d>> ELSE Itoa(i \div 10) \o <<d>>

ColNameFromOne(i) == <<"c", "o", "l", "_">> \o Itoa(i + 1)

\* fmt.Sprintf("col_%d", i) for the 0-based column i
ColName(i) == <<"c", "o", "l", "_">> \o Itoa(i)

\* the error values of the decoders, by message
ErrUnsupportedFormat == "unsupported file format"
ErrOpenExcel == "failed to open Excel file"
ErrSharedStrings == "failed to load shared strings"
ErrSheetNotFound == "worksheet not found"
ErrSheetXml == "worksheet xml"
ErrSheetEmpty == "worksheet is empty"
ErrOpenXLS == "failed to open XLS file"
ErrXLSTooSmall == "invalid XLS file: too small"
ErrXLSSignature == "invalid XLS file: unsupported signature"
ErrXLSNoData == "no data found in XLS file"
ErrOLETooSmall == "invalid OLE file: too small"
ErrOLENoData == "no valid Excel data found in OLE file"

NoFrame == NewDataFrame(<<>>)

(***************************************************************************)
(* The OOXML container.  A zip entry is its name and what encoding/xml     *)
(* makes of its content: ok (it is well-formed XML), items (the text of    *)
(* its si elements) and rows (the cells of its sheetData rows).  A cell    *)
(* is its t attribute (Type), its v element (Value) and its inline text.   *)
(***************************************************************************)
\* loadSharedStrings: the first entry called xl/sharedStrings.xml, if any
SharedEntry(files) ==
    IF \E i \in 1..Len(files) : files[i].name = SharedStringsPart
    THEN CHOOSE i \in 1..Len(files) :
            /\ files[i].name = SharedStringsPart
            /\ \A j \in 1..(i - 1) : files[j].name # SharedStringsPart
    ELSE 0

loadSharedStrings(files) ==
    IF SharedEntry(files) = 0 THEN [strings |-> <<>>, err |-> "nil"]
    ELSE IF ~files[SharedEntry(files)].ok THEN [strings |-> <<>>, err |-> ErrSharedStrings]
    ELSE [strings |-> files[SharedEntry(files)].items, err |-> "nil"]

\* a cell resolution that never consults the shared-string table
getCellValueLiteral(strings, cell) ==
    IF cell.Type = TypeInline THEN cell.InlineStr ELSE cell.Value

\* er.strings[idx] exists: the table holds indices 0 .. len-1
getCellValue(strings, cell) ==
    IF cell.Type = TypeShared
    THEN IF Atoi(cell.Value).ok
            /\ Atoi(cell.Value).v >= 0 /\ Atoi(cell.Value).v < Len(strings)
         THEN strings[Atoi(cell.Value).v + 1]
         ELSE cell.Value
    ELSE IF cell.Type = TypeInline THEN cell.InlineStr
    ELSE cell.Value

\* a sheet lookup that takes the first entry of the container, matching or not
FirstEntry(files, sheetName) == IF files = <<>> THEN 0 ELSE 1

SheetMatches(name, sheetName) ==
    HasSuffix(name, sheetName) \/ name = WorksheetDir \o sheetName

\* the first entry the sheet name matches, 0 when there is none
WorksheetEntry(files, sheetName) ==
    IF \E i \in 1..Len(files) : SheetMatches(files[i].name, sheetName)
    THEN CHOOSE i \in 1..Len(files) :
            /\ SheetMatches(files[i].name, sheetName)
            /\ \A j \in 1..(i - 1) : ~SheetMatches(files[j].name, sheetName)
    ELSE 0

\* the width of the first row alone
HeaderWidth(rows) == IF rows = <<>> THEN 0 ELSE Len(Head(rows))

RECURSIVE MaxWidth(_)
MaxWidth(rows) ==
    IF rows = <<>> THEN 0
    ELSE LET rest == MaxWidth(Tail(rows))
         IN  IF Len(Head(rows)) > rest THEN Len(Head(rows)) ELSE rest

\* df.AddRow(row) for each of rows in order, the returned error dropped
RECURSIVE AddRows(_, _, _)
AddRows(st, rows, i) ==
    IF i > Len(rows) THEN st
    ELSE LET r == AddRow(st.mem, st.df, rows[i])
         IN  AddRows([mem |-> r.mem, df |-> r.df], rows, i + 1)

\* column names that ignore the header cells
SheetColumnsPositional(strings, rows, maxCols) == [i \in 1..maxCols |-> ColName(i - 1)]

SheetColumns(strings, rows, maxCols) ==
    [i \in 1..maxCols |->
        IF i <= Len(rows[1]) THEN getCellValue(strings, rows[1][i]) ELSE ColName(i - 1)]

SheetRow(strings, cells, maxCols) ==
    [j \in 1..maxCols |->
        IF j <= Len(cells) THEN inferType(getCellValue(strings, cells[j])) ELSE Null]

readWorksheet(mem, files, strings, sheetName) ==
    LET w == WorksheetEntry(files, sheetName) IN
    IF w = 0
    THEN [mem |-> mem, has |-> FALSE, df |-> NoFrame, err |-> ErrSheetNotFound]
    ELSE IF ~files[w].ok
    THEN [mem |-> mem, has |-> FALSE, df |-> NoFrame, err |-> ErrSheetXml]
    ELSE IF files[w].rows = <<>>
    THEN [mem |-> mem, has |-> FALSE, df |-> NoFrame, err |-> ErrSheetEmpty]
    ELSE LET rows    == files[w].rows
             maxCols == MaxWidth(rows)
             st      == AddRows([mem |-> mem,
                                 df  |-> NewDataFrame(SheetColumns(strings, rows, maxCols))],
                                [i \in 1..(Len(rows) - 1) |->
                                    SheetRow(strings, rows[i + 1], maxCols)], 1)
         IN  [mem |-> st.mem, has |-> TRUE, df |-> st.df, err |-> "nil"]

\* the sheet part readXLSX asks for
SheetPart(sheetName) ==
    IF Len(sheetName) > 0 /\ sheetName[1] # <<>>
    THEN ToLower(sheetName[1]) \o DotXml
    ELSE DefaultSheet

\* filepath.Ext: the suffix from the last dot of the last path element
Ext(path) ==
    LET stops == {i \in 1..Len(path) : path[i] \in {".", "/"}}
        k     == CHOOSE i \in stops : \A j \in stops : j <= i
    IN  IF stops = {} THEN <<>>
        ELSE IF path[k] = "." THEN SubSeq(path, k, Len(path))
        ELSE <<>>

(***************************************************************************)
(* Legacy (.xls) records.  Offsets are 0-based as in the Go code.          *)
(***************************************************************************)
SigBIFF8 == 2057
SigBIFF5 == 2053
SigOLE == 53455
SigOLESwapped == 53200
RecSST == 252
RecRow == 513
RecNumber == 515
RecLabel == 516
CellNumber == 516
CellString == 517
MinXLSLen == 8
MinOLELen == 512
ScanStride == 512
MaxColSpan == 1000
MaxCol == 255
MaxLabelLen == 1000
OLEOffsets == <<512, 1024, 2048, 4096>>

\* binary.LittleEndian.Uint16(b[off:])
U16(b, off) == b[off + 1] + 256 * b[off + 2]

\* b[off : off+n]
Slice(b, off, n) == SubSeq(b, off + 1, off + n)

\* int(binary.LittleEndian.Uint32(b[off:])) < n, for n below 65536
U32Below(b, off, n) == b[off + 3] = 0 /\ b[off + 4] = 0 /\ U16(b, off) < n

parseSST(data) ==
    IF Len(data) < 2 THEN <<>>
    ELSE IF U16(data, 0) > Len(data) - 2 THEN <<>>
    ELSE BytesToString(Slice(data, 2, U16(data, 0)))

\* the bytes parseRow keeps of an untyped cell
RowCellClean(cellData) == SelectSeq(cellData, LAMBDA b : b # 0 /\ b >= 32 /\ b < 127)

\* the text of the cell whose type word is at off (6 data bytes follow)
RowCell(data, off, strings) ==
    LET cellType == U16(data, off)
        cellData == Slice(data, off + 2, 6)
    IN  IF cellType = CellNumber
        THEN <<>>   \* len(cellData) >= 8 never holds for the 6-byte array
        ELSE IF cellType = CellString
        THEN IF U32Below(cellData, 0, Len(strings))
             THEN strings[U16(cellData, 0) + 1] ELSE <<>>
        ELSE BytesToString(RowCellClean(cellData))

\* the cells of a row record: cell i is read while 8 bytes are left
parseRow(data, strings) ==
    IF Len(data) < 6 THEN [ok |-> FALSE, row |-> <<>>]
    ELSE LET firstCol == U16(data, 2)
             lastCol  == U16(data, 4)
         IN  IF lastCol < firstCol \/ lastCol - firstCol > MaxColSpan
             THEN [ok |-> FALSE, row |-> <<>>]
             ELSE [ok  |-> TRUE,
                   row |-> [i \in 1..(lastCol - firstCol + 1) |->
                              IF Len(data) - (6 + 8 * (i - 1)) >= 8
                              THEN RowCell(data, 6 + 8 * (i - 1), strings)
                              ELSE <<>>]]

\* the bytes parseLabelRecord keeps
LabelClean(strData) ==
    SelectSeq(strData, LAMBDA b : b # 0 /\ (b >= 32 \/ b = 9 \/ b = 10 \/ b = 13))

parseLabelRecord(data, strings) ==
    IF Len(data) < 8 THEN [ok |-> FALSE, row |-> <<>>]
    ELSE LET col    == U16(data, 2)
             length == U16(data, 6)
         IN  IF col > MaxCol THEN [ok |-> FALSE, row |-> <<>>]
             ELSE IF length > Len(data) - 8 \/ length > MaxLabelLen
             THEN [ok |-> FALSE, row |-> <<>>]
             ELSE [ok  |-> TRUE,
                   row |-> [i \in 1..(col + 1) |->
                              IF i = col + 1
                              THEN BytesToString(LabelClean(Slice(data, 8, length)))
                              ELSE <<>>]]

(***************************************************************************)
(* fmt.Sprintf("%.2f", v) for the float64 v of 8 little-endian bytes.      *)
(* The decoding is exact for the values whose low 48 mantissa bits are 0   *)
(* and whose binary exponent lies in -7 .. 20, for zero, Inf and NaN; the  *)
(* number records of the model hold only such values, and any other value  *)
(* is rendered as the token "?".                                           *)
(***************************************************************************)
RECURSIVE Pow2(_)
Pow2(k) == IF k <= 0 THEN 1 ELSE 2 * Pow2(k - 1)

\* num / den rounded to the nearest integer, ties to even
RoundHalfEven(num, den) ==
    LET q == num \div den
        r == num % den
    IN  IF 2 * r > den \/ (2 * r = den /\ q % 2 = 1) THEN q + 1 ELSE q

TwoDigits(k) == IF k < 10 THEN <<"0">> \o Itoa(k) ELSE Itoa(k)

FormatFloat2(b) ==
    LET neg  == b[8] >= 128
        e    == (b[8] % 128) * 16 + (b[7] \div 16)
        f    == b[7] % 16
        low0 == \A i \in 1..6 : b[i] = 0
        sign == IF neg THEN <<"-">> ELSE <<>>
        ex   == e - 1023
        h    == IF ex >= 4 THEN (16 + f) * 100 * Pow2(ex - 4)
                ELSE RoundHalfEven((16 + f) * 100, Pow2(4 - ex))
    IN  IF e = 2047
        THEN IF f = 0 /\ low0
             THEN (IF neg THEN <<"-">> ELSE <<"+">>) \o <<"I", "n", "f">>
             ELSE <<"N", "a", "N">>
        ELSE IF e = 0 /\ f = 0 /\ low0 THEN sign \o <<"0", ".", "0", "0">>
        ELSE IF low0 /\ ex >= -7 /\ ex <= 20
        THEN sign \o Itoa(h \div 100) \o <<".">> \o TwoDigits(h % 100)
        ELSE <<"?">>

\* the float64 is read at offset 8, after the 4 skipped bytes, so a payload
\* of 14 or 15 bytes fails the read and yields nil
parseNumberRecord(data) ==
    IF Len(data) < 14 THEN [ok |-> FALSE, row |-> <<>>]
    ELSE IF U16(data, 2) > MaxCol THEN [ok |-> FALSE, row |-> <<>>]
    ELSE IF Len(data) - 8 < 8 THEN [ok |-> FALSE, row |-> <<>>]
    ELSE [ok  |-> TRUE,
          row |-> [i \in 1..(U16(data, 2) + 1) |->
                     IF i = U16(data, 2) + 1 THEN FormatFloat2(Slice(data, 8, 8))
                     ELSE <<>>]]

(***************************************************************************)
(* The record loops.  A loop state is the reader's offset pos, the strings *)
(* and rows collected so far, and brk (the loop was left by break).        *)
(***************************************************************************)
LoopStart == [pos |-> 0, strings |-> <<>>, rows |-> <<>>, brk |-> FALSE]

\* for reader.Len() > 4
LoopGuard(data, ls) == ~ls.brk /\ Len(data) - ls.pos > 4

AppendString(ls, str) == IF str # <<>> THEN Append(ls.strings, str) ELSE ls.strings

AppendRow(ls, r) == IF r.ok /\ Len(r.row) > 0 THEN Append(ls.rows, r.row) ELSE ls.rows

\* one iteration of the loop of parseXLS (the raw record stream)
parseXLSStep(data, ls) ==
    LET type   == U16(data, ls.pos)
        size   == U16(data, ls.pos + 2)
        p      == ls.pos + 4
        left   == Len(data) - p
        record == IF size > 0 THEN Slice(data, p, size) ELSE <<>>
    IN  IF size > 0 /\ left < size
        THEN [ls EXCEPT !.pos = Len(data), !.brk = TRUE]
        ELSE [pos     |-> p + size,
              strings |-> IF type = RecSST THEN AppendString(ls, parseSST(record))
                          ELSE ls.strings,
              rows    |-> IF type = RecRow THEN AppendRow(ls, parseRow(record, ls.strings))
                          ELSE ls.rows,
              brk     |-> FALSE]

\* an iteration that trusts the declared size and moves the reader past the end
parseBIFFDataStepUnchecked(data, ls) ==
    LET type   == U16(data, ls.pos)
        size   == U16(data, ls.pos + 2)
        p      == ls.pos + 4
        left   == Len(data) - p
        record == Slice(data, p, IF size <= left THEN size ELSE left)
    IN  [pos     |-> p + size,
         strings |-> ls.strings,
         rows    |-> IF type = RecRow THEN AppendRow(ls, parseRow(record, ls.strings))
                     ELSE ls.rows,
         brk     |-> FALSE]

\* an iteration that leaves the reader where it was
parseBIFFDataStepStuck(data, ls) == ls

\* one iteration of the loop of parseBIFFData (the stream the OLE2 locator found)
parseBIFFDataStep(data, ls) ==
    LET type   == U16(data, ls.pos)
        size   == U16(data, ls.pos + 2)
        p      == ls.pos + 4
        left   == Len(data) - p
        read   == size > 0 /\ size <= left
        record == IF read THEN Slice(data, p, size) ELSE <<>>
    IN  [pos     |-> IF read THEN p + size ELSE p,
         strings |-> IF type = RecSST THEN AppendString(ls, parseSST(record))
                     ELSE ls.strings,
         rows    |-> IF type = RecRow THEN AppendRow(ls, parseRow(record, ls.strings))
                     ELSE IF type = RecNumber THEN AppendRow(ls, parseNumberRecord(record))
                     ELSE IF type = RecLabel
                     THEN AppendRow(ls, parseLabelRecord(record, ls.strings))
                     ELSE ls.rows,
         brk     |-> FALSE]

\* the table both legacy paths build from the collected rows: the first row
\* names the columns, the others are coerced and padded with nil
rowsToFrame(mem, rows) ==
    LET maxCols == MaxWidth(rows)
        columns == [i \in 1..maxCols |->
                       IF i <= Len(rows[1]) THEN rows[1][i] ELSE ColName(i - 1)]
        st      == AddRows([mem |-> mem, df |-> NewDataFrame(columns)],
                           [i \in 1..(Len(rows) - 1) |->
                               [j \in 1..maxCols |->
                                   IF j <= Len(rows[i + 1])
                                   THEN inferType(rows[i + 1][j]) ELSE Null]], 1)
    IN  [mem |-> st.mem, has |-> TRUE, df |-> st.df, err |-> "nil"]

(***************************************************************************)
(* The OLE2 locator.                                                       *)
(***************************************************************************)
IsBIFFSig(sig) == sig = SigBIFF8 \/ sig = SigBIFF5

\* the test of both probe loops at offset off
ProbeHit(data, off) == off + 4 < Len(data) /\ IsBIFFSig(U16(data, off))

\* a fixed probe that never hits
FixedProbeNone(data) == -1

\* the first of the fixed offsets that hits, -1 when none does
FixedProbe(data) ==
    IF \E k \in 1..Len(OLEOffsets) :
          OLEOffsets[k] < Len(data) /\ ProbeHit(data, OLEOffsets[k])
    THEN OLEOffsets[CHOOSE k \in 1..Len(OLEOffsets) :
            /\ OLEOffsets[k] < Len(data) /\ ProbeHit(data, OLEOffsets[k])
            /\ \A j \in 1..(k - 1) :
                  ~(OLEOffsets[j] < Len(data) /\ ProbeHit(data, OLEOffsets[j]))]
    ELSE -1

\* for i := 0; i < len(data)-4; i += 512: the first i that hits, -1 when none
RECURSIVE StrideScan(_, _)
StrideScan(data, i) ==
    IF ~(i < Len(data) - 4) THEN -1
    ELSE IF ProbeHit(data, i) THEN i
    ELSE StrideScan(data, i + ScanStride)

\* the offsets the loop over the fixed candidates tests, in order: candidates
\* at or past the end are passed over, and the loop returns at the first hit
RECURSIVE FixedVisits(_, _)
FixedVisits(data, k) ==
    IF k > Len(OLEOffsets) THEN <<>>
    ELSE IF OLEOffsets[k] >= Len(data) THEN FixedVisits(data, k + 1)
    ELSE IF ProbeHit(data, OLEOffsets[k]) THEN <<OLEOffsets[k]>>
    ELSE <<OLEOffsets[k]>> \o FixedVisits(data, k + 1)

\* the offsets the stride loop tests, in order, up to its first hit
RECURSIVE ScanVisits(_, _)
ScanVisits(data, i) ==
    IF ~(i < Len(data) - 4) THEN <<>>
    ELSE IF ProbeHit(data, i) THEN <<i>>
    ELSE <<i>> \o ScanVisits(data, i + ScanStride)

\* data[off:]
From(data, off) == SubSeq(data, off + 1, Len(data))

(***************************************************************************)
(* Whole calls, for the callers that do not step through them.             *)
(***************************************************************************)
RECURSIVE RunParseXLS(_, _)
RunParseXLS(data, ls) ==
    IF LoopGuard(data, ls) THEN RunParseXLS(data, parseXLSStep(data, ls)) ELSE ls

RECURSIVE RunParseBIFFData(_, _)
RunParseBIFFData(data, ls) ==
    IF LoopGuard(data, ls) THEN RunParseBIFFData(data, parseBIFFDataStep(data, ls)) ELSE ls

Failed(mem, err) == [mem |-> mem, has |-> FALSE, df |-> NoFrame, err |-> err]

parseBIFFData(mem, data) == rowsToFrame(mem, RunParseBIFFData(data, LoopStart).rows)

parseOLEXLS(mem, data) ==
    IF Len(data) < MinOLELen THEN Failed(mem, ErrOLETooSmall)
    ELSE IF FixedProbe(data) # -1 THEN parseBIFFData(mem, From(data, FixedProbe(data)))
    ELSE IF StrideScan(data, 0) # -1 THEN parseBIFFData(mem, From(data, StrideScan(data, 0)))
    ELSE Failed(mem, ErrOLENoData)

\* a signature switch that knows the two BIFF words only
SniffRecordsOnly(signature) == IF IsBIFFSig(signature) THEN "raw" ELSE "unsupported"

\* the path the leading 16-bit word selects
Sniff(signature) ==
    IF IsBIFFSig(signature) THEN "raw"
    ELSE IF signature = SigOLE \/ signature = SigOLESwapped THEN "ole"
    ELSE "unsupported"

parseXLS(mem, data) ==
    IF Len(data) < MinXLSLen THEN Failed(mem, ErrXLSTooSmall)
    ELSE IF Sniff(U16(data, 0)) = "ole" THEN parseOLEXLS(mem, data)
    ELSE IF Sniff(U16(data, 0)) = "unsupported" THEN Failed(mem, ErrXLSSignature)
    ELSE IF RunParseXLS(data, LoopStart).rows = <<>> THEN Failed(mem, ErrXLSNoData)
    ELSE rowsToFrame(mem, RunParseXLS(data, LoopStart).rows)

\* the file at the path: kind "missing", "zip" (files are its entries) or
\* "raw"; bytes are its content
readXLSX(mem, disk, sheetName) ==
    IF disk.kind # "zip" THEN Failed(mem, ErrOpenExcel)
    ELSE IF loadSharedStrings(disk.files).err # "nil" THEN Failed(mem, ErrSharedStrings)
    ELSE readWorksheet(mem, disk.files, loadSharedStrings(disk.files).strings,
                       SheetPart(sheetName))

readXLS(mem, disk) ==
    IF disk.kind = "missing" THEN Failed(mem, ErrOpenXLS) ELSE parseXLS(mem, disk.bytes)

\* a dispatch that sends every path that is not .xlsx to the legacy reader
DispatchLegacyDefault(path) ==
    IF ToLower(Ext(path)) = ExtXlsx THEN "readXLSX" ELSE "readXLS"

\* the branch ReadExcel takes for a path
Dispatch(filename) ==
    IF ToLower(Ext(filename)) = ExtXlsx THEN "readXLSX"
    ELSE IF ToLower(Ext(filename)) = ExtXls THEN "readXLS"
    ELSE "unsupported"

ReadExcel(mem, filename, sheetName, disk) ==
    IF Dispatch(filename) = "readXLSX" THEN readXLSX(mem, disk, sheetName)
    ELSE IF Dispatch(filename) = "readXLS" THEN readXLS(mem, disk)
    ELSE Failed(mem, ErrUnsupportedFormat)

(***************************************************************************)
(* ReadCSV.  The file is given as the records encoding/csv reads from it;  *)
(* ReadAll fails when a record's field count differs from the first's.     *)
(***************************************************************************)
ErrOpenCSV == "failed to open file"
ErrReadCSV == "failed to read CSV"
ErrCSVEmpty == "CSV file is empty"

ReadCSV(mem, csv, hasHeader) ==
    IF csv.kind = "missing" THEN Failed(mem, ErrOpenCSV)
    ELSE IF \E i \in 1..Len(csv.records) : Len(csv.records[i]) # Len(csv.records[1])
    THEN Failed(mem, ErrReadCSV)
    ELSE IF csv.records = <<>> THEN Failed(mem, ErrCSVEmpty)
    ELSE LET records   == csv.records
             dataStart == IF hasHeader THEN 2 ELSE 1
             columns   == IF hasHeader THEN records[1]
                          ELSE [i \in 1..Len(records[1]) |-> ColName(i - 1)]
             st        == AddRows([mem |-> mem, df |-> NewDataFrame(columns)],
                                  [i \in 1..(Len(records) - dataStart + 1) |->
                                      [j \in 1..Len(records[i + dataStart - 1]) |->
                                          inferType(records[i + dataStart - 1][j])]], 1)
         IN  [mem |-> st.mem, has |-> TRUE, df |-> st.df, err |-> "nil"]

(***************************************************************************)
(* fmt.Sprintf("%v", val) as ToCSV applies it to a cell.  A float64 is     *)
(* printed by strconv's 'g' format with the shortest digits that read back *)
(* to the same value, which for a float parsed from a short decimal are    *)
(* the digits of its normalised mantissa: %e when the decimal exponent is  *)
(* below -4 or at least 6, else %f with no trailing zeros.                 *)
(***************************************************************************)
ZeroDigits(k) == [i \in 1..k |-> "0"]

FormatG(x) ==
    LET ds   == Itoa(x.n)
        nd   == Len(ds)
        dp   == nd + x.e
        ex   == dp - 1
        sign == IF x.neg THEN <<"-">> ELSE <<>>
    IN  IF x.n = 0 THEN sign \o <<"0">>
        ELSE IF ex < -4 \/ ex >= 6
        THEN sign \o <<ds[1]>> \o (IF nd > 1 THEN <<".">> \o Tail(ds) ELSE <<>>)
                  \o <<"e">> \o (IF ex < 0 THEN <<"-">> \o TwoDigits(-ex)
                                  ELSE <<"+">> \o TwoDigits(ex))
        ELSE IF dp <= 0 THEN sign \o <<"0", ".">> \o ZeroDigits(-dp) \o ds
        ELSE IF dp < nd THEN sign \o SubSeq(ds, 1, dp) \o <<".">> \o SubSeq(ds, dp + 1, nd)
        ELSE sign \o ds \o ZeroDigits(dp - nd)

FormatV(v) ==
    IF v.tag = "Null" THEN <<"<", "n", "i", "l", ">">>
    ELSE IF v.tag = "Int" THEN (IF v.n < 0 THEN <<"-">> \o Itoa(-v.n) ELSE Itoa(v.n))
    ELSE IF v.tag = "Bool" THEN (IF v.n = 1 THEN <<"t", "r", "u", "e">>
                                 ELSE <<"f", "a", "l", "s", "e">>)
    ELSE IF v.tag = "Text" THEN v.s
    ELSE IF IsNaN(v) THEN <<"N", "a", "N">>
    ELSE IF IsInf(v) THEN (IF v.neg THEN <<"-">> ELSE <<"+">>) \o <<"I", "n", "f">>
    ELSE FormatG(v)

(***************************************************************************)
(* ToCSV: the header record when asked for, then one record per row with   *)
(* every cell printed by %v.  The file is given by the records a later     *)
(* csv.Reader yields from it: csv.Writer quotes what needs quoting, so     *)
(* every field reads back as written, except that a record of one empty    *)
(* field is written as an empty line, which the reader skips.  os.Create   *)
(* and the writes succeed.                                                 *)
(***************************************************************************)
ToCSV(mem, df, hasHeader) ==
    LET rows    == Rows(mem, df)
        header  == IF hasHeader THEN <<df.columns>> ELSE <<>>
        written == header \o [i \in 1..Len(rows) |->
                                 [j \in 1..Len(rows[i]) |-> FormatV(rows[i][j])]]
    IN  [err  |-> "nil",
         file |-> [kind    |-> "file",
                   records |-> SelectSeq(written, LAMBDA r : r # <<<<>>>>)]]

(***************************************************************************)
(* The state.                                                              *)
(*   pc         where the running call is                                  *)
(*   filename, sheetName, disk   the arguments of ReadExcel and the file   *)
(*   src        how a legacy file was laid out (for stating the claims)    *)
(*   opened     the file has been opened                                   *)
(*   erStrings  ExcelReader.strings                                        *)
(*   data, loop the buffer of the record reader and its loop state         *)
(*   locator    which probe of parseOLEXLS found the stream, and where     *)
(*   mem        the heap of slice arrays                                   *)
(*   ret        what the call returned: has (a non-nil *DataFrame), df,    *)
(*              err and sig (the signature an error names, else -1)        *)
(*   text, value   the argument and result of an inferType call            *)
(*   dfs, last, panicked   the DataFrames a caller holds, its last call    *)
(*              and whether that call panicked                             *)
(***************************************************************************)
VARIABLES pc, filename, sheetName, disk, src, opened, erStrings, data, loop,
          locator, mem, ret, text, value, dfs, last, panicked

vars == <<pc, filename, sheetName, disk, src, opened, erStrings, data, loop,
          locator, mem, ret, text, value, dfs, last, panicked>>

callVars == <<filename, sheetName, disk, src>>
frameVars == <<dfs, last, panicked>>
coerceVars == <<text, value>>

NoRet == [has |-> FALSE, df |-> NoFrame, err |-> "pending", sig |-> -1]
NoLocator ==
    [phase |-> "none", offset |-> -1, scanned |-> FALSE, fixedSeen |-> <<>>,
     scanSeen |-> <<>>]
NoSrc == [family |-> "none", recs |-> <<>>, cut |-> 0, places |-> <<>>]
NoDisk == [kind |-> "missing", files |-> <<>>, bytes |-> <<>>]
NoLast ==
    [op |-> "none", d |-> 0, row |-> <<>>, before |-> <<>>, err |-> "nil", n |-> 0,
     arg |-> <<>>, made |-> 0, heads |-> {}]

Returned(r) == [has |-> r.has, df |-> r.df, err |-> r.err, sig |-> -1]

(***************************************************************************)
(* Inputs: worksheets.  A generated sheet has every shape of at most       *)
(* MaxSheetRows rows of at most MaxCells cells; its cells run through      *)
(* CellPool from a starting seed.                                          *)
(***************************************************************************)
Cell(t, v, is) == [Type |-> t, Value |-> v, InlineStr |-> is]

CellPool ==
    << Cell(<<>>, <<"2", "5">>, <<>>),
       Cell(TypeShared, <<"0">>, <<>>),
       Cell(TypeInline, <<>>, <<"B", "o", "b">>),
       Cell(TypeShared, <<"1">>, <<>>),
       Cell(<<>>, <<>>, <<>>),
       Cell(<<"n">>, <<" ", "1", ".", "5", "0">>, <<>>),
       Cell(TypeShared, <<"7">>, <<>>),
       Cell(<<"b">>, <<"1">>, <<>>),
       Cell(TypeShared, <<"a">>, <<"z">>),
       Cell(<<"s", "t", "r">>, <<"t", "r", "u", "e">>, <<>>),
       Cell(TypeShared, <<"-", "1">>, <<>>) >>

SheetCell(seed, r, j) == CellPool[((seed + 3 * r + j) % Len(CellPool)) + 1]

Shapes == UNION {[1..n -> 0..MaxCells] : n \in 0..MaxSheetRows}

SheetOf(shape, seed) ==
    [r \in 1..Len(shape) |-> [j \in 1..shape[r] |-> SheetCell(seed, r, j)]]

Entry(name, ok, items, rows) == [name |-> name, ok |-> ok, items |-> items, rows |-> rows]

NameCol == <<"n", "a", "m", "e">>
AgeCol == <<"a", "g", "e">>
ContentTypesPart == <<"[", "C", "o", "n", "t", "e", "n", "t", "_", "T", "y", "p", "e", "s", "]",
                      ".", "x", "m", "l">>
Sheet1Part == WorksheetDir \o DefaultSheet
Sheet2Part == WorksheetDir \o <<"s", "h", "e", "e", "t", "2", ".", "x", "m", "l">>
DataPart == WorksheetDir \o <<"d", "a", "t", "a", ".", "x", "m", "l">>
MySheet1Part == WorksheetDir \o <<"m", "y">> \o DefaultSheet

\* the shared-string part of a workbook: none, one entry, two entries, malformed
SharedVariant(k) ==
    CASE k = 0 -> <<>>
      [] k = 1 -> <<Entry(SharedStringsPart, TRUE, <<NameCol>>, <<>>)>>
      [] k = 2 -> <<Entry(SharedStringsPart, TRUE, <<NameCol, AgeCol>>, <<>>)>>
      [] k = 3 -> <<Entry(SharedStringsPart, FALSE, <<>>, <<>>)>>

Zip(files) == [kind |-> "zip", files |-> files, bytes |-> <<80, 75, 3, 4, 20, 0, 0, 0>>]

Book(k, part, sheet) ==
    Zip(<<Entry(ContentTypesPart, TRUE, <<>>, <<>>)>> \o SharedVariant(k)
        \o <<Entry(part, TRUE, <<>>, sheet)>>)

GeneratedBooks ==
    {Book(k, Sheet1Part, SheetOf(shape, seed)) :
        k \in 0..2, shape \in Shapes, seed \in 0..(Len(CellPool) - 1)}

\* header [name, age] and rows [Alice, 25], [Bob, 30], texts as shared strings
ExampleBook ==
    Zip(<< Entry(SharedStringsPart, TRUE,
                 <<NameCol, AgeCol, <<"A", "l", "i", "c", "e">>, <<"B", "o", "b">>>>, <<>>),
           Entry(Sheet1Part, TRUE, <<>>,
                 << <<Cell(TypeShared, <<"0">>, <<>>), Cell(TypeShared, <<"1">>, <<>>)>>,
                    <<Cell(TypeShared, <<"2">>, <<>>), Cell(<<>>, <<"2", "5">>, <<>>)>>,
                    <<Cell(TypeShared, <<"3">>, <<>>), Cell(<<>>, <<"3", "0">>, <<>>)>> >>) >>)

OneRow(seed) == SheetOf(<<2>>, seed)
TwoRows(seed) == SheetOf(<<1, 2>>, seed)

SpecialBooks ==
    { ExampleBook,
      Book(3, Sheet1Part, OneRow(0)),
      Book(0, DataPart, TwoRows(0)),
      Book(1, MySheet1Part, TwoRows(1)),
      Zip(<<Entry(Sheet1Part, FALSE, <<>>, <<>>)>>),
      Zip(<<Entry(Sheet1Part, TRUE, <<>>, TwoRows(2)),
            Entry(Sheet2Part, TRUE, <<>>, TwoRows(5))>>),
      Zip(<<Entry(Sheet2Part, TRUE, <<>>, <<>>),
            Entry(Sheet1Part, TRUE, <<>>, OneRow(3))>>),
      Book(1, Sheet1Part,
           << <<Cell(TypeShared, <<"0">>, <<>>), Cell(TypeShared, <<"1">>, <<>>)>>,
              <<Cell(TypeShared, <<"7">>, <<>>), Cell(TypeInline, <<"9">>, <<"B", "o", "b">>)>> >>),
      Zip(<<>>) }

(***************************************************************************)
(* Inputs: legacy buffers.  A stream is a BOF record followed by at most   *)
(* MaxRecords records of RecPool, with at most MaxCut bytes cut off its    *)
(* end; an OLE2 buffer is the compound-document header, zero padding and   *)
(* streams placed at sector offsets.                                       *)
(***************************************************************************)
LE16(v) == <<v % 256, v \div 256>>

Rec(type, payload) == LE16(type) \o LE16(Len(payload)) \o payload

Zeros(n) == [i \in 1..n |-> 0]

RECURSIVE Flatten(_)
Flatten(recs) == IF recs = <<>> THEN <<>> ELSE Head(recs) \o Flatten(Tail(recs))

BOF8 == Rec(SigBIFF8, <<0, 6, 16, 0>>)
BOF5 == Rec(SigBIFF5, <<0, 5, 16, 0>>)

\* an untyped 8-byte cell of a row record holding up to 6 text bytes
TextCell(bytes) == <<0, 0>> \o bytes \o Zeros(6 - Len(bytes))
\* a string cell of a row record referring to string idx
RefCell(idx) == LE16(CellString) \o <<idx, 0, 0, 0, 0, 0>>

RowRec(r, c1, c2, cells) ==
    Rec(RecRow, LE16(r) \o LE16(c1) \o LE16(c2) \o cells)

LabelRec(r, c, bytes) ==
    Rec(RecLabel, LE16(r) \o LE16(c) \o <<15, 0>> \o LE16(Len(bytes)) \o bytes)

\* float64 1.0 and 2.5, little-endian
F64One == <<0, 0, 0, 0, 0, 0, 240, 63>>
F64TwoAndHalf == <<0, 0, 0, 0, 0, 0, 4, 64>>

RecPool ==
    << Rec(RecSST, LE16(2) \o <<104, 105>>),
       RowRec(0, 0, 1, TextCell(<<105, 100>>) \o RefCell(0)),
       RowRec(1, 0, 0, TextCell(<<50, 53>>)),
       RowRec(2, 0, 2, TextCell(<<9, 55, 127, 200>>)),
       RowRec(3, 2, 1, TextCell(<<49>>)),
       LabelRec(1, 1, <<66, 7, 111, 200, 98>>),
       Rec(RecNumber, LE16(1) \o LE16(0) \o <<15, 0, 0, 0>> \o F64TwoAndHalf),
       Rec(RecNumber, LE16(1) \o LE16(1) \o <<15, 0>> \o F64One),
       Rec(10, <<>>),
       Rec(146, LabelRec(2, 0, <<52, 50>>) \o Zeros(6)) >>

Picks == UNION {[1..n -> 1..Len(RecPool)] : n \in 0..MaxRecords}

StreamOf(bof, picks) == <<bof>> \o [i \in 1..Len(picks) |-> RecPool[picks[i]]]

\* the bytes of records recs with the last cut bytes missing
CutBytes(recs, cut) == SubSeq(Flatten(recs), 1, Len(Flatten(recs)) - cut)

\* the compound-document magic as stored (read little-endian: 0xCFD0)
OLEMagic == <<208, 207, 17, 224, 161, 177, 26, 225>>
\* its first two bytes swapped (read little-endian: 0xD0CF)
OLEMagicSwapped == <<207, 208, 17, 224, 161, 177, 26, 225>>

\* a buffer of total bytes: magic, zeros, and each place's bytes at its offset
Layout(magic, places, total) ==
    [i \in 1..total |->
        IF \E k \in 1..Len(places) :
              i > places[k].off /\ i <= places[k].off + Len(places[k].bytes)
        THEN LET k == CHOOSE k \in 1..Len(places) :
                         i > places[k].off /\ i <= places[k].off + Len(places[k].bytes)
             IN  places[k].bytes[i - places[k].off]
        ELSE IF i <= Len(magic) THEN magic[i] ELSE 0]

Place(off, bytes) == [off |-> off, bytes |-> bytes]

RECURSIVE EndOf(_)
EndOf(places) ==
    IF places = <<>> THEN 0
    ELSE LET rest == EndOf(Tail(places))
             end  == Head(places).off + Len(Head(places).bytes)
         IN  IF end > rest THEN end ELSE rest

RawSrc(recs, cut) ==
    [family |-> "raw", recs |-> recs, cut |-> cut,
     places |-> <<Place(0, CutBytes(recs, cut))>>]

OleSrc(recs, cut, off) ==
    [family |-> "ole", recs |-> recs, cut |-> cut,
     places |-> <<Place(off, CutBytes(recs, cut))>>]

\* an OLE2 buffer with several placed byte runs; recs is the stream the
\* locator is expected to find, when there is one
OleMulti(recs, places) == [family |-> "ole", recs |-> recs, cut |-> 0, places |-> places]

File(bytes) == [kind |-> "raw", files |-> <<>>, bytes |-> bytes]

DiskOf(s) ==
    IF s.family = "raw" THEN File(s.places[1].bytes)
    ELSE File(Layout(OLEMagic, s.places, EndOf(s.places)))

RawSrcs == {RawSrc(StreamOf(BOF8, p), c) : p \in Picks, c \in 0..MaxCut}

OleSrcs == {OleSrc(StreamOf(BOF8, p), c, MinOLELen) : p \in Picks, c \in 0..MaxCut}

TwoRowStream == StreamOf(BOF8, <<2, 3>>)
LabelStream == StreamOf(BOF5, <<6, 7>>)

SpecialSrcs ==
    { RawSrc(StreamOf(BOF5, <<1, 2, 3>>), 0),
      RawSrc(LabelStream, 1),
      RawSrc(StreamOf(BOF8, <<2, 3, 3>>), 1),
      OleSrc(StreamOf(BOF8, <<2, 3, 6>>), 2, 512),
      OleSrc(TwoRowStream, 0, 1024),
      OleSrc(TwoRowStream, 1, 2048),
      OleSrc(LabelStream, 0, 4096),
      OleSrc(TwoRowStream, 0, 1536),
      OleSrc(LabelStream, 2, 4608),
      OleSrc(<<>>, 0, 1024),
      OleSrc(<<>>, 0, 200),
      OleSrc(<<SubSeq(BOF8, 1, 4)>>, 0, 512),
      OleSrc(<<SubSeq(BOF8, 1, 4)>>, 0, 1536),
      OleMulti(LabelStream, <<Place(1536, Flatten(TwoRowStream)),
                              Place(2048, Flatten(LabelStream))>>),
      OleMulti(TwoRowStream, <<Place(512, Flatten(TwoRowStream)),
                               Place(1024, Flatten(LabelStream))>>),
      OleMulti(TwoRowStream, <<Place(1024, Flatten(TwoRowStream)),
                               Place(3072, Flatten(LabelStream))>>) }

\* buffers that are neither: too short, or led by another word
OtherBytes ==
    { <<>>, <<9, 8>>, SubSeq(BOF8, 1, 7), SubSeq(OLEMagic, 1, 7),
      <<80, 75, 3, 4, 20, 0, 0, 0>>, <<9, 9, 0, 0, 0, 0, 0, 0>>, Zeros(12),
      <<8, 9, 4, 0, 0, 6, 16, 0, 0>>,
      OLEMagicSwapped \o Zeros(4), OLEMagic \o Zeros(4),
      Layout(OLEMagicSwapped, <<Place(512, Flatten(TwoRowStream))>>,
             512 + Len(Flatten(TwoRowStream))) }

(***************************************************************************)
(* Spec: one ReadExcel call, stepped through its functions.                *)
(***************************************************************************)
PathXlsx == <<"a", ".", "x", "l", "s", "x">>
PathXlsxUpper == <<"r", "/", "A", ".", "X", "L", "S", "X">>
PathXls == <<"b", ".", "x", "l", "s">>
PathXlsMixed == <<"B", ".", "X", "l", "s">>
PathOds == <<"c", ".", "o", "d", "s">>
PathNoExt == <<"d", "a", "t", "a">>
PathDirDot == <<"d", ".", "x", "l", "s", "/", "e">>
PathBackup == <<"f", ".", "x", "l", "s", "x", ".", "b", "a", "k">>

Selectors == {<<>>, <<<<>>>>, <<<<"S", "h", "e", "e", "t", "2">>>>, <<<<"D", "a", "t", "a">>>>}

InitCall(f, sn, d, s) ==
    /\ pc = "ReadExcel"
    /\ filename = f /\ sheetName = sn /\ disk = d /\ src = s
    /\ opened = FALSE /\ erStrings = <<>> /\ data = <<>> /\ loop = LoopStart
    /\ locator = NoLocator /\ mem = <<>> /\ ret = NoRet
    /\ text = <<>> /\ value = Null
    /\ dfs = <<>> /\ last = NoLast /\ panicked = FALSE

Init ==
    \/ \E d \in GeneratedBooks \cup SpecialBooks : InitCall(PathXlsx, <<>>, d, NoSrc)
    \/ \E d \in SpecialBooks \cup {NoDisk, File(Flatten(TwoRowStream))}, sn \in Selectors :
          InitCall(PathXlsxUpper, sn, d, NoSrc)
    \/ \E s \in RawSrcs \cup OleSrcs \cup SpecialSrcs : InitCall(PathXls, <<>>, DiskOf(s), s)
    \/ \E d \in {File(b) : b \in OtherBytes} \cup {NoDisk, ExampleBook} :
          InitCall(PathXlsMixed, <<>>, d, NoSrc)
    \/ \E f \in {PathOds, PathNoExt, PathDirDot, PathBackup},
          d \in {ExampleBook, File(Flatten(TwoRowStream)), NoDisk} :
          InitCall(f, <<>>, d, NoSrc)

Done(r) == pc' = "done" /\ ret' = r

Fail(e) == Done([has |-> FALSE, df |-> NoFrame, err |-> e, sig |-> -1])

ReadExcelCall ==
    /\ pc = "ReadExcel"
    /\ IF Dispatch(filename) = "unsupported"
       THEN Fail(ErrUnsupportedFormat)
       ELSE pc' = Dispatch(filename) /\ ret' = ret
    /\ UNCHANGED <<callVars, opened, erStrings, data, loop, locator, mem, coerceVars,
                   frameVars>>

\* zip.OpenReader(filename)
readXLSXOpen ==
    /\ pc = "readXLSX"
    /\ opened' = TRUE
    /\ IF disk.kind # "zip" THEN Fail(ErrOpenExcel)
       ELSE pc' = "loadSharedStrings" /\ ret' = ret
    /\ UNCHANGED <<callVars, erStrings, data, loop, locator, mem, coerceVars, frameVars>>

loadSharedStringsCall ==
    /\ pc = "loadSharedStrings"
    /\ erStrings' = loadSharedStrings(disk.files).strings
    /\ IF loadSharedStrings(disk.files).err # "nil" THEN Fail(ErrSharedStrings)
       ELSE pc' = "readWorksheet" /\ ret' = ret
    /\ UNCHANGED <<callVars, opened, data, loop, locator, mem, coerceVars, frameVars>>

readWorksheetCall ==
    /\ pc = "readWorksheet"
    /\ LET r == readWorksheet(mem, disk.files, erStrings, SheetPart(sheetName))
       IN  mem' = r.mem /\ Done(Returned(r))
    /\ UNCHANGED <<callVars, opened, erStrings, data, loop, locator, coerceVars, frameVars>>

\* os.Open(filename) and io.ReadAll(file)
readXLSOpen ==
    /\ pc = "readXLS"
    /\ opened' = TRUE
    /\ IF disk.kind = "missing"
       THEN Fail(ErrOpenXLS) /\ data' = data
       ELSE pc' = "parseXLS" /\ ret' = ret /\ data' = disk.bytes
    /\ UNCHANGED <<callVars, erStrings, loop, locator, mem, coerceVars, frameVars>>

\* parseXLS up to its record loop: the length check and the signature switch
parseXLSSniff ==
    /\ pc = "parseXLS"
    /\ IF Len(data) < MinXLSLen THEN Fail(ErrXLSTooSmall)
       ELSE IF Sniff(U16(data, 0)) = "ole" THEN pc' = "parseOLEXLS" /\ ret' = ret
       ELSE IF Sniff(U16(data, 0)) = "unsupported"
       THEN Done([has |-> FALSE, df |-> NoFrame, err |-> ErrXLSSignature,
                  sig |-> U16(data, 0)])
       ELSE pc' = "parseXLSLoop" /\ ret' = ret
    /\ loop' = LoopStart
    /\ UNCHANGED <<callVars, opened, erStrings, data, locator, mem, coerceVars, frameVars>>

parseXLSRecord ==
    /\ pc = "parseXLSLoop"
    /\ LoopGuard(data, loop)
    /\ loop' = parseXLSStep(data, loop)
    /\ UNCHANGED <<pc, callVars, opened, erStrings, data, locator, mem, ret, coerceVars,
                   frameVars>>

parseXLSFinish ==
    /\ pc = "parseXLSLoop"
    /\ ~LoopGuard(data, loop)
    /\ IF loop.rows = <<>> THEN Fail(ErrXLSNoData) /\ mem' = mem
       ELSE LET r == rowsToFrame(mem, loop.rows) IN mem' = r.mem /\ Done(Returned(r))
    /\ UNCHANGED <<callVars, opened, erStrings, data, loop, locator, coerceVars, frameVars>>

\* binary.LittleEndian.Uint16(data[off:]) panics when fewer than 2 bytes follow off
ProbePanics(buf, off) == off + 4 < Len(buf) /\ off + 2 > Len(buf)

\* parseOLEXLS: the length check and the probe of the fixed offsets
parseOLEXLSProbe ==
    /\ pc = "parseOLEXLS"
    /\ panicked' = \E k \in 1..Len(OLEOffsets) : ProbePanics(data, OLEOffsets[k])
    /\ IF Len(data) < MinOLELen
       THEN Fail(ErrOLETooSmall) /\ UNCHANGED <<data, locator>>
       ELSE IF FixedProbe(data) # -1
       THEN /\ pc' = "parseBIFFDataLoop" /\ ret' = ret
            /\ data' = From(data, FixedProbe(data))
            /\ locator' = [phase |-> "fixed", offset |-> FixedProbe(data),
                           scanned |-> FALSE, fixedSeen |-> FixedVisits(data, 1),
                           scanSeen |-> <<>>]
       ELSE /\ pc' = "parseOLEXLSScan" /\ ret' = ret /\ data' = data
            /\ locator' = [locator EXCEPT !.fixedSeen = FixedVisits(data, 1)]
    /\ UNCHANGED <<callVars, opened, erStrings, loop, mem, coerceVars, dfs, last>>

\* parseOLEXLS: the 512-byte stride scan
parseOLEXLSScan ==
    /\ pc = "parseOLEXLSScan"
    /\ IF StrideScan(data, 0) # -1
       THEN /\ pc' = "parseBIFFDataLoop" /\ ret' = ret
            /\ data' = From(data, StrideScan(data, 0))
            /\ locator' = [locator EXCEPT !.phase = "scan",
                                          !.offset = StrideScan(data, 0),
                                          !.scanned = TRUE,
                                          !.scanSeen = ScanVisits(data, 0)]
       ELSE /\ Fail(ErrOLENoData) /\ data' = data
            /\ locator' = [locator EXCEPT !.scanned = TRUE,
                                          !.scanSeen = ScanVisits(data, 0)]
    /\ UNCHANGED <<callVars, opened, erStrings, loop, mem, coerceVars, frameVars>>

parseBIFFDataRecord ==
    /\ pc = "parseBIFFDataLoop"
    /\ LoopGuard(data, loop)
    /\ loop' = parseBIFFDataStep(data, loop)
    /\ UNCHANGED <<pc, callVars, opened, erStrings, data, locator, mem, ret, coerceVars,
                   frameVars>>

parseBIFFDataFinish ==
    /\ pc = "parseBIFFDataLoop"
    /\ ~LoopGuard(data, loop)
    /\ LET r == rowsToFrame(mem, loop.rows) IN mem' = r.mem /\ Done(Returned(r))
    /\ UNCHANGED <<callVars, opened, erStrings, data, loop, locator, coerceVars, frameVars>>

Next ==
    \/ ReadExcelCall
    \/ readXLSXOpen
    \/ loadSharedStringsCall
    \/ readWorksheetCall
    \/ readXLSOpen
    \/ parseXLSSniff
    \/ parseXLSRecord
    \/ parseXLSFinish
    \/ parseOLEXLSProbe
    \/ parseOLEXLSScan
    \/ parseBIFFDataRecord
    \/ parseBIFFDataFinish

Spec == Init /\ [][Next]_vars

(***************************************************************************)
(* SpecCoerce: inferType applied to bounded texts.                         *)
(***************************************************************************)
CoerceAlphabet == {" ", "+", "-", ".", "0", "1", "e", "t"}

CoerceExamples ==
    {<<"4", "2">>, <<"3", ".", "1", "4">>, <<"t", "r", "u", "e">>,
     <<"h", "e", "l", "l", "o">>, <<"f", "a", "l", "s", "e">>, <<"T", "R", "U", "E">>,
     <<"F">>, <<" ", "2", "5", " ", " ">>, <<"\t", "3", "0", "\n">>, <<"n", "a", "n">>,
     <<"-", "I", "n", "f">>, <<"1", ".", "0">>, <<"2", "5", "0", "e", "-", "2">>,
     <<"t", "r", "u", "e", " ", "x">>, <<"1", "2", "a">>, <<"-", "1", "7">>}

CoerceTexts ==
    UNION {[1..n -> CoerceAlphabet] : n \in 0..MaxTextLen} \cup CoerceExamples

InitCoerce ==
    /\ pc = "text"
    /\ text \in CoerceTexts
    /\ value = Null
    /\ filename = <<>> /\ sheetName = <<>> /\ disk = NoDisk /\ src = NoSrc
    /\ opened = FALSE /\ erStrings = <<>> /\ data = <<>> /\ loop = LoopStart
    /\ locator = NoLocator /\ mem = <<>> /\ ret = NoRet
    /\ dfs = <<>> /\ last = NoLast /\ panicked = FALSE

Coerce ==
    /\ pc = "text"
    /\ value' = inferType(text)
    /\ pc' = "coerced"
    /\ UNCHANGED <<text, callVars, opened, erStrings, data, loop, locator, mem, ret,
                   frameVars>>

\* a second call on the same text, compared with the first
CoerceAgain ==
    /\ pc = "coerced"
    /\ value' = inferType(text)
    /\ pc' = IF value' = value THEN "same" ELSE "differs"
    /\ UNCHANGED <<text, callVars, opened, erStrings, data, loop, locator, mem, ret,
                   frameVars>>

NextCoerce ==
    \/ Coerce
    \/ CoerceAgain

SpecCoerce == InitCoerce /\ [][NextCoerce]_vars

Coerced == pc \in {"coerced", "same", "differs"}

(***************************************************************************)
(* C4: coercion is total and deterministic and applies a fixed priority to *)
(* the trimmed text: empty gives Null; else a base-10 integer gives that   *)
(* integer ("1" and "0" are integers, never booleans); else a float; else  *)
(* a boolean; else the trimmed text.  Exactly one of the five outcomes is  *)
(* returned, and a second call on the same text returns the same outcome.  *)
(***************************************************************************)
C4_CoercionPriority ==
    Coerced =>
        LET t == TrimSpace(text) IN
        /\ pc # "differs"
        /\ value.tag \in {"Null", "Int", "Float", "Bool", "Text"}
        /\ (value.tag = "Null") = (t = <<>>)
        /\ t # <<>> =>
            /\ (value.tag = "Int") = Atoi(t).ok
            /\ Atoi(t).ok => value = IntV(Atoi(t).v)
            /\ (value.tag = "Float") = (~Atoi(t).ok /\ ParseFloat(t).ok)
            /\ value.tag = "Float" => value = ParseFloat(t).v
            /\ (value.tag = "Bool") =
                   (~Atoi(t).ok /\ ~ParseFloat(t).ok /\ ParseBool(t).ok)
            /\ value.tag = "Bool" => value = BoolV(ParseBool(t).v)
            /\ (value.tag = "Text") =
                   (~Atoi(t).ok /\ ~ParseFloat(t).ok /\ ~ParseBool(t).ok)
            /\ value.tag = "Text" => value = TextV(t)
        /\ t \in {<<"1">>, <<"0">>} => value = IntV(DigitVal[t[1]])
        /\ text = <<"4", "2">> => value = IntV(42)
        /\ text = <<"3", ".", "1", "4">> => value = FloatV(FALSE, 314, -2)
        /\ text = <<"t", "r", "u", "e">> => value = BoolV(TRUE)
        /\ text = <<>> => value = Null
        /\ text = <<"h", "e", "l", "l", "o">> => value = TextV(text)

\* " 1" has been coerced twice and is the integer 1 both times
C4_Witness ==
    /\ pc = "same"
    /\ text = <<" ", "1">>
    /\ value = IntV(1)

(***************************************************************************)
(* The OOXML decode, seen from the inputs of the call.                     *)
(***************************************************************************)
IsXlsxPath == ToLower(Ext(filename)) = ExtXlsx
IsXlsPath == ToLower(Ext(filename)) = ExtXls

\* the container entries the sheet selector matches
Matched ==
    {i \in 1..Len(disk.files) : SheetMatches(disk.files[i].name, SheetPart(sheetName))}

FirstMatch == CHOOSE i \in Matched : \A j \in Matched : i <= j

\* the shared-string table of the workbook, empty when it has no such part
SharedParts == {i \in 1..Len(disk.files) : disk.files[i].name = SharedStringsPart}

SharedTable ==
    IF SharedParts = {} THEN <<>>
    ELSE disk.files[CHOOSE i \in SharedParts : \A j \in SharedParts : i <= j].items

SharedReadable == \A i \in SharedParts : disk.files[i].ok

\* the call went through readXLSX and its container and shared strings were read
SheetStage == pc = "done" /\ IsXlsxPath /\ disk.kind = "zip" /\ SharedReadable

\* the matched worksheet parsed and has at least one row
SheetRead ==
    /\ SheetStage
    /\ Matched # {}
    /\ disk.files[FirstMatch].ok
    /\ disk.files[FirstMatch].rows # <<>>

SheetRows == disk.files[FirstMatch].rows

Widest == CHOOSE w \in {Len(SheetRows[i]) : i \in 1..Len(SheetRows)} :
              \A i \in 1..Len(SheetRows) : Len(SheetRows[i]) <= w

TableRows == Rows(mem, ret.df)

(***************************************************************************)
(* C1: for every worksheet with at least one row, with N the number of     *)
(* rows after the header row and W the maximum cell count over all rows,   *)
(* the decoder returns a table of exactly W column names and exactly N     *)
(* rows, each of length W; wider data rows are neither dropped nor cut.    *)
(***************************************************************************)
C1_SheetShape ==
    SheetRead =>
        /\ ret.has /\ ret.err = "nil"
        /\ Len(Columns(ret.df)) = Widest
        /\ Len(TableRows) = Len(SheetRows) - 1
        /\ \A r \in 1..Len(TableRows) : Len(TableRows[r]) = Widest
        /\ Shape(mem, ret.df) = <<Len(SheetRows) - 1, Widest>>

\* a sheet with two data rows, one of them wider than the header, was decoded
C1_Witness ==
    /\ SheetRead /\ ret.has
    /\ Len(SheetRows) = 3
    /\ Len(SheetRows[1]) = 1
    /\ Len(SheetRows[2]) = 2
    /\ Len(TableRows) = 2
    /\ Len(TableRows[2]) = 2

\* the text the shared-string table, the inline run or the literal gives a cell
Resolved(cell) ==
    IF cell.Type = TypeShared
    THEN IF Atoi(cell.Value).ok /\ Atoi(cell.Value).v \in 0..(Len(SharedTable) - 1)
         THEN SharedTable[Atoi(cell.Value).v + 1]
         ELSE cell.Value
    ELSE IF cell.Type = TypeInline THEN cell.InlineStr
    ELSE cell.Value

(***************************************************************************)
(* C2: the decode preserves order and content.  Column name i is the       *)
(* resolved text of header cell i below the header's cell count and        *)
(* col_<i> from there up to W-1; data row r, column j holds the coercion   *)
(* of the resolved text of cell j of sheet row r+1, and Null where that    *)
(* row has no cell j.  Header [name, age] with rows [Alice, 25], [Bob, 30] *)
(* gives columns [name, age] and rows [[Alice, 25], [Bob, 30]].            *)
(***************************************************************************)
C2_OrderAndContent ==
    SheetRead =>
        /\ ret.has
        /\ \A i \in 1..Len(Columns(ret.df)) :
              Columns(ret.df)[i] =
                  IF i <= Len(SheetRows[1]) THEN Resolved(SheetRows[1][i])
                  ELSE ColName(i - 1)
        /\ \A r \in 1..Len(TableRows) : \A j \in 1..Len(TableRows[r]) :
              TableRows[r][j] =
                  IF j <= Len(SheetRows[r + 1])
                  THEN inferType(Resolved(SheetRows[r + 1][j]))
                  ELSE Null
        /\ disk = ExampleBook =>
              /\ Columns(ret.df) = <<NameCol, AgeCol>>
              /\ TableRows = << <<TextV(<<"A", "l", "i", "c", "e">>), IntV(25)>>,
                                <<TextV(<<"B", "o", "b">>), IntV(30)>> >>

\* a header of one cell under a wider data row: a positional name and a Null
C2_Witness ==
    /\ SheetRead /\ ret.has
    /\ Len(SheetRows) = 3
    /\ Len(SheetRows[1]) = 1 /\ Len(SheetRows[2]) = 2 /\ Len(SheetRows[3]) = 1
    /\ Columns(ret.df)[2] = ColName(1)
    /\ TableRows[2][2] = Null
    /\ TableRows[1][2] # Null

\* every cell of the matched sheet, header cells included
SheetCells == {<<r, j>> \in (1..Len(SheetRows)) \X (1..Widest) : j <= Len(SheetRows[r])}

\* what the table holds at the place of sheet cell <<r, j>>
Held(r, j) == IF r = 1 THEN TextV(Columns(ret.df)[j]) ELSE TableRows[r - 1][j]

\* a text as the table holds it: as is in the header, coerced in a data row
AsHeld(r, t) == IF r = 1 THEN TextV(t) ELSE inferType(t)

InTable(cell) ==
    /\ cell.Type = TypeShared
    /\ Atoi(cell.Value).ok
    /\ Atoi(cell.Value).v \in 0..(Len(SharedTable) - 1)

OutOfTable(cell) ==
    /\ cell.Type = TypeShared
    /\ Atoi(cell.Value).ok
    /\ Atoi(cell.Value).v \notin 0..(Len(SharedTable) - 1)

(***************************************************************************)
(* C3: a cell of type s whose value is an index present in the             *)
(* shared-string table resolves to exactly that entry; an index outside    *)
(* the table (also when the workbook has no shared-string part, which      *)
(* gives an empty table and no error) degrades to the raw literal text     *)
(* and the decode does not abort; a cell of type inlineStr resolves to     *)
(* its inline text and any other cell to its literal text.                 *)
(***************************************************************************)
C3_SharedStringResolution ==
    /\ pc = "readWorksheet" /\ SharedParts = {} => erStrings = <<>>
    /\ SheetRead =>
        /\ ret.has /\ ret.err = "nil"
        /\ \A c \in SheetCells :
              LET cell == SheetRows[c[1]][c[2]] IN
              /\ InTable(cell) =>
                    Held(c[1], c[2]) = AsHeld(c[1], SharedTable[Atoi(cell.Value).v + 1])
              /\ OutOfTable(cell) => Held(c[1], c[2]) = AsHeld(c[1], cell.Value)
              /\ cell.Type = TypeInline => Held(c[1], c[2]) = AsHeld(c[1], cell.InlineStr)
              /\ cell.Type \notin {TypeShared, TypeInline} =>
                    Held(c[1], c[2]) = AsHeld(c[1], cell.Value)

\* a header with one index in the table and one outside it, both decoded
C3_Witness ==
    /\ SheetRead /\ ret.has
    /\ Len(SharedTable) = 1
    /\ Len(SheetRows[1]) = 2
    /\ InTable(SheetRows[1][1]) /\ OutOfTable(SheetRows[1][2])
    /\ Columns(ret.df) = <<NameCol, <<"1">>>>

(***************************************************************************)
(* C10: the sheet decoder fails and returns no table when no container     *)
(* entry matches the sheet selector (worksheet not found) and when the     *)
(* matched worksheet has zero rows (worksheet is empty); a worksheet with  *)
(* only a header row is no error and yields the header's column names and  *)
(* zero rows.                                                              *)
(***************************************************************************)
C10_SheetErrors ==
    SheetStage =>
        /\ Matched = {} => ~ret.has /\ ret.err = ErrSheetNotFound
        /\ Matched # {} /\ disk.files[FirstMatch].ok =>
              /\ disk.files[FirstMatch].rows = <<>> =>
                    ~ret.has /\ ret.err = ErrSheetEmpty
              /\ Len(disk.files[FirstMatch].rows) = 1 =>
                    /\ ret.has /\ ret.err = "nil"
                    /\ Len(Columns(ret.df)) = Len(SheetRows[1])
                    /\ \A i \in 1..Len(SheetRows[1]) :
                          Columns(ret.df)[i] = Resolved(SheetRows[1][i])
                    /\ TableRows = <<>>

\* a sheet of one two-cell row decoded to two column names and no rows
C10_Witness ==
    /\ SheetRead /\ ret.has
    /\ Len(SheetRows) = 1
    /\ Len(Columns(ret.df)) = 2
    /\ Shape(mem, ret.df) = <<0, 2>>

(***************************************************************************)
(* C7: ReadExcel on a path whose extension, compared case-insensitively,   *)
(* is neither .xlsx nor .xls returns the unsupported-format error and no   *)
(* table, before the file is opened or any byte of it is inspected.        *)
(***************************************************************************)
C7_UnsupportedExtension ==
    ~IsXlsxPath /\ ~IsXlsPath =>
        /\ pc \in {"ReadExcel", "done"}
        /\ ~opened
        /\ data = <<>> /\ erStrings = <<>> /\ loop = LoopStart /\ locator = NoLocator
        /\ pc = "done" => ~ret.has /\ ret.err = ErrUnsupportedFormat

\* the call on c.ods returned, with a readable workbook behind the path
C7_Witness ==
    /\ pc = "done"
    /\ filename = PathOds
    /\ disk = ExampleBook
    /\ ret.err = ErrUnsupportedFormat
    /\ ~opened

(***************************************************************************)
(* The legacy decode, seen from the bytes of the file.                     *)
(***************************************************************************)
\* readXLS has read the file and parseXLS has passed its signature switch
Sniffed == IsXlsPath /\ disk.kind = "raw" /\ pc \notin {"ReadExcel", "readXLS", "parseXLS"}

FirstWord == U16(disk.bytes, 0)

RawStages == {"parseXLSLoop", "done"}
OleStages == {"parseOLEXLS", "parseOLEXLSScan", "parseBIFFDataLoop", "done"}

\* what the first word decides
WordDecides ==
    /\ IsBIFFSig(FirstWord) =>
          /\ pc \in RawStages
          /\ data = disk.bytes /\ locator = NoLocator
          /\ pc = "done" => ret.err \in {"nil", ErrXLSNoData}
    /\ FirstWord \in {SigOLE, SigOLESwapped} =>
          /\ pc \in OleStages
          /\ pc = "parseBIFFDataLoop" =>
                locator.offset > 0 /\ data = From(disk.bytes, locator.offset)
          /\ pc = "done" => ret.err \in {"nil", ErrOLETooSmall, ErrOLENoData}
    /\ ~IsBIFFSig(FirstWord) /\ FirstWord \notin {SigOLE, SigOLESwapped} =>
          /\ pc = "done"
          /\ ~ret.has /\ ret.err = ErrXLSSignature /\ ret.sig = FirstWord

(***************************************************************************)
(* C8, as amended: for .xls input of at least 8 bytes the first            *)
(* little-endian 16-bit word alone decides the path before any record is   *)
(* parsed: 0x0809 or 0x0805 is decoded as a raw record stream from offset  *)
(* 0; 0xD0CF or 0xCFD0 goes to the OLE2 locator and is never fed to the    *)
(* record reader at offset 0; every other word fails with the              *)
(* unsupported-signature error naming the word and returns no table.  A    *)
(* buffer shorter than 8 bytes fails as too small whatever its first word. *)
(***************************************************************************)
C8_SignatureDecides ==
    Sniffed =>
        IF Len(disk.bytes) >= MinXLSLen THEN WordDecides
        ELSE pc = "done" /\ ~ret.has /\ ret.err = ErrXLSTooSmall /\ ret.sig = -1

\* C8 as stated: the first word decides for every .xls buffer that has one
C8_AsStated == Sniffed /\ Len(disk.bytes) >= 2 => WordDecides

\* compound-document bytes were handed to the locator, which found a stream at 512
C8_Witness ==
    /\ Sniffed
    /\ Len(disk.bytes) >= MinOLELen
    /\ FirstWord = SigOLESwapped
    /\ pc = "parseBIFFDataLoop"
    /\ locator.offset = MinOLELen
    /\ loop = LoopStart

\* the call reached the OLE2 locator and the locator has finished
LocatorRan ==
    /\ Sniffed /\ Len(disk.bytes) >= MinXLSLen
    /\ FirstWord \in {SigOLE, SigOLESwapped}
    /\ pc \in {"parseBIFFDataLoop", "done"}

\* offset off of the file holds a BIFF signature
Holds(off) == off + 2 <= Len(disk.bytes) /\ IsBIFFSig(U16(disk.bytes, off))

\* it holds one and more than four bytes follow the offset
HoldsWithRoom(off) == off + 4 < Len(disk.bytes) /\ Holds(off)

FixedOffsets == {OLEOffsets[k] : k \in 1..Len(OLEOffsets)}

ScanOffsets == {ScanStride * i : i \in 0..(Len(disk.bytes) \div ScanStride)}

\* the member of the probe order the locator must hand on, given the offsets that count
FirstFixed(hits) ==
    OLEOffsets[CHOOSE k \in 1..Len(OLEOffsets) :
                  /\ OLEOffsets[k] \in hits
                  /\ \A j \in 1..(k - 1) : OLEOffsets[j] \notin hits]

FirstScanned(hits) ==
    CHOOSE o \in ScanOffsets \cap hits : \A q \in ScanOffsets \cap hits : o <= q

HandedOn(phase, off) ==
    /\ locator.phase = phase
    /\ locator.offset = off
    /\ locator.scanned = (phase = "scan")
    /\ data = From(disk.bytes, off)
    /\ ret.err \in {"pending", "nil"}

NotFound == pc = "done" /\ ~ret.has /\ ret.err = ErrOLENoData

\* the probe order applied to the offsets of hits
ProbeOrder(hits) ==
    /\ IF FixedOffsets \cap hits # {} THEN HandedOn("fixed", FirstFixed(hits))
       ELSE IF ScanOffsets \cap hits # {} THEN HandedOn("scan", FirstScanned(hits))
       ELSE NotFound
    /\ 1024 \in hits /\ FixedOffsets \cap hits = {1024} =>
          locator.phase = "fixed" /\ locator.offset = 1024 /\ ~locator.scanned

(***************************************************************************)
(* C6, as amended: given compound-document bytes of at least 512 bytes,    *)
(* the locator hands the record reader the first offset that holds a       *)
(* BIFF8 or BIFF5 signature and is followed by more than four bytes, in    *)
(* this order: the fixed candidates 512, 1024, 2048, 4096 first, and only  *)
(* if none of them matches a 512-byte-stride scan of the buffer.  A        *)
(* signature at 1024 and at no other fixed candidate is found by the       *)
(* fixed probe and the scan never runs; with no such offset the call       *)
(* fails with the no-data error and no table.  Fewer than 512 bytes fail   *)
(* as too small before any offset is probed.                               *)
(***************************************************************************)
C6_LocatorOrder ==
    /\ pc = "parseOLEXLSScan" => \A o \in FixedOffsets : ~HoldsWithRoom(o)
    /\ LocatorRan =>
          IF Len(disk.bytes) < MinOLELen
          THEN pc = "done" /\ ~ret.has /\ ret.err = ErrOLETooSmall /\ locator = NoLocator
          ELSE ProbeOrder({o \in FixedOffsets \cup ScanOffsets : HoldsWithRoom(o)})

\* C6 as stated: every offset that holds a signature counts, and a buffer
\* without one fails as not found
C6_AsStated ==
    LocatorRan => ProbeOrder({o \in FixedOffsets \cup ScanOffsets : Holds(o)})

\* a stream at 1024 and at no other fixed candidate was found by the fixed probe
C6_Witness ==
    /\ LocatorRan
    /\ pc = "done" /\ ret.has
    /\ Holds(1024) /\ ~Holds(512) /\ ~Holds(2048)
    /\ locator = [phase |-> "fixed", offset |-> 1024, scanned |-> FALSE,
                  fixedSeen |-> <<512, 1024>>, scanSeen |-> <<>>]

(***************************************************************************)
(* Truncated legacy streams.  src describes how the bytes of the file      *)
(* were laid out: the records of the stream, in order, and the number of   *)
(* bytes cut off the end of the last one.                                  *)
(***************************************************************************)
LastRec == src.recs[Len(src.recs)]

\* the header of the last record is whole and declares more than what is left
Truncated ==
    /\ src.family \in {"raw", "ole"}
    /\ Len(src.places) = 1
    /\ src.recs # <<>>
    /\ src.cut > 0
    /\ src.cut <= Len(LastRec) - 4

CompleteRecs == SubSeq(src.recs, 1, Len(src.recs) - 1)

\* the row a whole record gives on the path of family fam
RowOf(rec, fam, strs) ==
    LET type    == U16(rec, 0)
        payload == SubSeq(rec, 5, Len(rec))
    IN  IF type = RecRow THEN parseRow(payload, strs)
        ELSE IF fam = "ole" /\ type = RecNumber THEN parseNumberRecord(payload)
        ELSE IF fam = "ole" /\ type = RecLabel THEN parseLabelRecord(payload, strs)
        ELSE [ok |-> FALSE, row |-> <<>>]

\* the rows whole records recs give, in stream order
RECURSIVE DecodedFrom(_, _, _, _)
DecodedFrom(recs, fam, strs, rows) ==
    IF recs = <<>> THEN rows
    ELSE LET rec == Head(recs)
             str == IF U16(rec, 0) = RecSST THEN parseSST(SubSeq(rec, 5, Len(rec)))
                    ELSE <<>>
             r   == RowOf(rec, fam, strs)
         IN  DecodedFrom(Tail(recs), fam,
                         IF str # <<>> THEN Append(strs, str) ELSE strs,
                         IF r.ok /\ Len(r.row) > 0 THEN Append(rows, r.row) ELSE rows)

RowsBeforeCut == DecodedFrom(CompleteRecs, src.family, <<>>, <<>>)

\* the table starts with rows: the first names the columns, the others are coerced
TableStartsWith(rows) ==
    /\ ret.has /\ ret.err = "nil"
    /\ Len(TableRows) >= Len(rows) - 1
    /\ \A j \in 1..Len(rows[1]) : Columns(ret.df)[j] = rows[1][j]
    /\ \A i \in 2..Len(rows) : \A j \in 1..Len(rows[i]) :
          TableRows[i - 1][j] = inferType(rows[i][j])

(***************************************************************************)
(* C5: for a legacy buffer whose final record declares a size larger than  *)
(* the bytes that remain, the decode (raw path and OLE-wrapped path        *)
(* alike) reads nothing beyond the buffer and does not crash, and the      *)
(* returned table contains every row decoded from the complete records     *)
(* before the truncation point, in stream order.                           *)
(***************************************************************************)
C5_TruncationKeepsRows ==
    /\ ~panicked
    /\ loop.pos <= Len(data)
    /\ pc = "done" /\ Truncated /\ RowsBeforeCut # <<>> => TableStartsWith(RowsBeforeCut)

\* an OLE-wrapped stream of two rows and a label cut short gave both rows
C5_Witness ==
    /\ pc = "done" /\ Truncated
    /\ src.family = "ole" /\ src.cut = 2
    /\ U16(LastRec, 0) = RecLabel
    /\ Len(RowsBeforeCut) = 2
    /\ TableStartsWith(RowsBeforeCut)
    /\ Shape(mem, ret.df) = <<1, 2>>

(***************************************************************************)
(* SpecDF: runs of the DataFrame API.  A run makes one DataFrame with      *)
(* NewDataFrame, ReadCSV or ReadExcel and then applies AddRow, Head,       *)
(* Filter, Select, Sort and GroupBy to the frames it holds; dfs lists the  *)
(* frames in order of creation and last records the latest operation.      *)
(***************************************************************************)
ZCol == <<"z">>

ColumnChoices == {<<>>, <<NameCol>>, <<NameCol, AgeCol>>}

RowChoices ==
    {<<>>, <<IntV(7)>>, <<TextV(<<"B", "o", "b">>), IntV(30)>>, <<NaNV, Null>>}

HeadChoices == {-1, 1, 5}

CsvFile(records) == [kind |-> "file", records |-> records]

CsvFiles ==
    { [kind |-> "missing", records |-> <<>>],
      CsvFile(<<>>),
      CsvFile(<< <<NameCol, AgeCol>>, <<<<"B", "o", "b">>, <<"3", "0">>>>,
                 <<<<"n", "a", "n">>, <<>>>> >>),
      CsvFile(<< <<NameCol, AgeCol>>, <<<<"x">>>> >>),
      CsvFile(<< <<NameCol>>, <<<<"7">>>>, <<<<"3">>>>, <<<<"2", ".", "5">>>> >>) }

ExcelFiles ==
    { [name |-> PathXlsx, disk |-> ExampleBook],
      [name |-> PathXlsx, disk |-> Book(1, Sheet1Part, SheetOf(<<1, 2, 0>>, 1))],
      [name |-> PathXls, disk |-> File(Flatten(TwoRowStream))],
      [name |-> PathXls, disk |-> DiskOf(OleSrc(LabelStream, 0, MinOLELen))],
      [name |-> PathOds, disk |-> ExampleBook] }

InitDF ==
    /\ pc = "df"
    /\ dfs = <<>> /\ mem = <<>> /\ last = NoLast /\ panicked = FALSE
    /\ filename = <<>> /\ sheetName = <<>> /\ disk = NoDisk /\ src = NoSrc
    /\ opened = FALSE /\ erStrings = <<>> /\ data = <<>> /\ loop = LoopStart
    /\ locator = NoLocator /\ ret = NoRet
    /\ text = <<>> /\ value = Null

idleVars == <<callVars, opened, erStrings, data, loop, locator, ret, coerceVars>>

CanOp == pc = "df" /\ last.n < MaxOps

Did(op, d, row, before, err) ==
    [op |-> op, d |-> d, row |-> row, before |-> before, err |-> err, n |-> last.n + 1,
     arg |-> <<>>, made |-> 0, heads |-> last.heads]

\* the rows of receiver d before the call (no receiver: d = 0)
Before(d) == IF d > 0 THEN Rows(mem, dfs[d]) ELSE <<>>

\* the call returned: frames are the DataFrames it made, m the heap after it;
\* heads collects the pairs <<source, result>> of the Head calls of the run
Returns(op, d, arg, frames, m, err) ==
    /\ dfs' = dfs \o frames
    /\ mem' = m
    /\ last' = [Did(op, d, <<>>, Before(d), err) EXCEPT
                   !.arg = arg, !.made = Len(frames),
                   !.heads = IF op = "Head" THEN @ \cup {<<d, Len(dfs) + 1>>} ELSE @]
    /\ UNCHANGED <<pc, panicked>>

Panics(op, d, arg) ==
    /\ pc' = "panic"
    /\ panicked' = TRUE
    /\ last' = [Did(op, d, <<>>, Before(d), "panic") EXCEPT !.arg = arg]
    /\ UNCHANGED <<dfs, mem>>

NewDataFrameCall ==
    /\ CanOp /\ dfs = <<>>
    /\ \E columns \in ColumnChoices :
          Returns("NewDataFrame", 0, columns, <<NewDataFrame(columns)>>, mem, "nil")
    /\ UNCHANGED idleVars

ReadCSVCall ==
    /\ CanOp /\ dfs = <<>>
    /\ \E csv \in CsvFiles, hasHeader \in BOOLEAN :
          LET r == ReadCSV(mem, csv, hasHeader)
          IN  Returns("ReadCSV", 0, [csv |-> csv, hasHeader |-> hasHeader],
                      IF r.has THEN <<r.df>> ELSE <<>>, r.mem, r.err)
    /\ UNCHANGED idleVars

ReadExcelFrame ==
    /\ CanOp /\ dfs = <<>>
    /\ \E f \in ExcelFiles :
          LET r == ReadExcel(mem, f.name, <<>>, f.disk)
          IN  Returns("ReadExcel", 0, f, IF r.has THEN <<r.df>> ELSE <<>>, r.mem, r.err)
    /\ UNCHANGED idleVars

AddRowCall ==
    /\ CanOp
    /\ \E d \in 1..Len(dfs), row \in RowChoices :
          LET r == AddRow(mem, dfs[d], row)
          IN  /\ dfs' = [dfs EXCEPT ![d] = r.df]
              /\ mem' = r.mem
              /\ last' = Did("AddRow", d, row, Rows(mem, dfs[d]), r.err)
    /\ UNCHANGED <<pc, panicked, idleVars>>

HeadCall ==
    /\ CanOp
    /\ \E d \in 1..Len(dfs), n \in HeadChoices :
          IF HeadPanics(dfs[d], n) THEN Panics("Head", d, n)
          ELSE Returns("Head", d, n, <<DataFrameHead(dfs[d], n)>>, mem, "nil")
    /\ UNCHANGED idleVars

FilterCall ==
    /\ CanOp
    /\ \E d \in 1..Len(dfs), p \in {"firstIsInt", "firstNotNil"} :
          LET r == Filter(mem, dfs[d], p)
          IN  Returns("Filter", d, p, <<r.df>>, r.mem, "nil")
    /\ UNCHANGED idleVars

SelectCall ==
    /\ CanOp
    /\ \E d \in 1..Len(dfs), columns \in {<<AgeCol>>, <<NameCol, NameCol>>, <<ZCol>>} :
          LET r == Select(mem, dfs[d], columns)
          IN  Returns("Select", d, columns, IF r.err = "nil" THEN <<r.df>> ELSE <<>>,
                      r.mem, r.err)
    /\ UNCHANGED idleVars

SortCall ==
    /\ CanOp
    /\ \E d \in 1..Len(dfs),
          by \in {<<NameCol, TRUE>>, <<AgeCol, FALSE>>, <<ZCol, TRUE>>} :
          LET r == Sort(mem, dfs[d], by[1], by[2])
          IN  Returns("Sort", d, by, IF r.err = "nil" THEN <<r.df>> ELSE <<>>, r.mem, r.err)
    /\ UNCHANGED idleVars

GroupByCall ==
    /\ CanOp
    /\ \E d \in 1..Len(dfs), column \in {NameCol, ZCol} :
          IF GroupByPanics(mem, dfs[d], column) THEN Panics("GroupBy", d, column)
          ELSE LET r == GroupBy(mem, dfs[d], column)
               IN  Returns("GroupBy", d, column,
                           [g \in 1..Len(r.groups) |-> r.groups[g].df], r.mem, r.err)
    /\ UNCHANGED idleVars

NextDF ==
    \/ NewDataFrameCall
    \/ ReadCSVCall
    \/ ReadExcelFrame
    \/ AddRowCall
    \/ HeadCall
    \/ FilterCall
    \/ SelectCall
    \/ SortCall
    \/ GroupByCall

SpecDF == InitDF /\ [][NextDF]_vars

\* every row of df is as long as its column names, and Shape counts both
FrameOK(df) ==
    /\ \A r \in 1..Len(Rows(mem, df)) : Len(Rows(mem, df)[r]) = Len(Columns(df))
    /\ Shape(mem, df) = <<Len(Rows(mem, df)), Len(Columns(df))>>

(***************************************************************************)
(* C9: in every DataFrame reachable from NewDataFrame by AddRow, Head,     *)
(* Filter, Select, Sort and GroupBy calls, and in every DataFrame          *)
(* returned by ReadCSV or ReadExcel, each row is as long as the column     *)
(* names and Shape reports (rows, columns).  AddRow with a row of another  *)
(* length returns an error and leaves the rows unchanged; AddRow with a    *)
(* matching row appends it as the last row, one row more than before.      *)
(***************************************************************************)
C9_TableInvariant ==
    /\ \A d \in 1..Len(dfs) : FrameOK(dfs[d])
    /\ last.op = "AddRow" =>
          LET df == dfs[last.d] IN
          IF Len(last.row) # Len(Columns(df))
          THEN last.err = ErrRowLength /\ Rows(mem, df) = last.before
          ELSE /\ last.err = "nil"
               /\ Rows(mem, df) = Append(last.before, last.row)
               /\ Shape(mem, df)[1] = Len(last.before) + 1

\* a matching row was added to the Head of a frame read from a CSV file,
\* and a row of another length was refused just before
C9_Witness ==
    /\ last.op = "AddRow" /\ last.err = "nil" /\ last.n = 3
    /\ Len(dfs) = 2
    /\ last.d = 2
    /\ Len(last.before) = 1
    /\ Shape(mem, dfs[2]) = <<2, 2>>
    /\ Shape(mem, dfs[1]) = <<2, 2>>

\* the frame the last call returned (the newest handle)
Result == dfs[Len(dfs)]

ResultRows == Rows(mem, Result)

SourceRows == Rows(mem, dfs[last.d])

\* C11: Filter(predicate) returns a new DataFrame with the source's column
\* names whose rows are exactly the source rows the predicate accepts, in source
\* order; the source's rows and their order are unchanged.
C11_FilterKeepsAccepted ==
    (pc = "df" /\ last.op = "Filter") =>
        /\ last.made = 1
        /\ Columns(Result) = Columns(dfs[last.d])
        /\ ResultRows = SelectSeq(last.before, LAMBDA r : Pred(last.arg, r))
        /\ SourceRows = last.before

C11_Witness ==
    /\ pc = "df"
    /\ last.op = "Filter"
    /\ last.arg = "firstIsInt"
    /\ Len(last.before) = 3
    /\ ResultRows = SubSeq(last.before, 1, 2)

\* the number a value stands for, as a float; Int and Float values only
AsNumber(v) == IF v.tag = "Int" THEN NormFloat(v.n < 0, IF v.n < 0 THEN -v.n ELSE v.n, 0) ELSE v

IsNumber(v) == v.tag \in {"Int", "Float"}

\* a is greater than b in the order the Sort contract states: Null before every
\* value, numbers numerically, strings lexicographically; other pairs are not
\* ordered by the contract
StatedGreater(a, b) ==
    IF a = Null THEN FALSE
    ELSE IF b = Null THEN TRUE
    ELSE IF IsNumber(a) /\ IsNumber(b) THEN FloatLess(AsNumber(b), AsNumber(a))
    ELSE IF a.tag = "Text" /\ b.tag = "Text" THEN StrLess(b.s, a.s)
    ELSE FALSE

Occurrences(rows, r) == Cardinality({i \in 1..Len(rows) : rows[i] = r})

IsPermutation(a, b) ==
    /\ Len(a) = Len(b)
    /\ \A i \in 1..Len(a) : Occurrences(a, a[i]) = Occurrences(b, a[i])

SortKnown == last.op = "Sort" /\ ColIndex(dfs[last.d], last.arg[1]) # 0

\* C12: Sort(column, ascending) on an existing column returns a new DataFrame
\* with the same columns whose rows are a permutation of the source rows ordered
\* by the column: for i < j the value at i is not greater than the value at j
\* when ascending, not less when descending, with Null before every value,
\* numbers compared numerically and strings lexicographically; the source order
\* is unchanged; an unknown column gives an error and no DataFrame.
C12_SortOrders ==
    /\ (pc = "df" /\ SortKnown) =>
          LET c == ColIndex(dfs[last.d], last.arg[1])
          IN  /\ last.err = "nil" /\ last.made = 1
              /\ Columns(Result) = Columns(dfs[last.d])
              /\ IsPermutation(ResultRows, last.before)
              /\ \A i, j \in 1..Len(ResultRows) :
                    i < j =>
                      IF last.arg[2]
                      THEN ~StatedGreater(ResultRows[i][c], ResultRows[j][c])
                      ELSE ~StatedGreater(ResultRows[j][c], ResultRows[i][c])
              /\ SourceRows = last.before
    /\ (pc = "df" /\ last.op = "Sort" /\ ~SortKnown) =>
          last.err = ErrColumn /\ last.made = 0

\* the frames the last call returned
Made == SubSeq(dfs, Len(dfs) - last.made + 1, Len(dfs))

RECURSIVE SumLen(_, _)
SumLen(frames, g) ==
    IF g > Len(frames) THEN 0 ELSE frames[g].data.len + SumLen(frames, g + 1)

\* C13: GroupBy(column) on an existing column partitions the rows: one group
\* per distinct value of the column (Null included), each group with the
\* source's columns and exactly the source rows whose value equals the key, in
\* source order; the group row counts sum to the source row count; an unknown
\* column gives an error and no groups.
C13_GroupByPartitions ==
    last.op = "GroupBy" =>
      LET c    == ColIndex(dfs[last.d], last.arg)
          keys == {last.before[i][c] : i \in 1..Len(last.before)}
          With(k) == SelectSeq(last.before, LAMBDA r : r[c] = k)
      IN  IF c = 0 THEN pc = "df" /\ last.err = ErrColumn /\ last.made = 0
          ELSE /\ pc = "df" /\ last.err = "nil"
               /\ last.made = Cardinality(keys)
               /\ \A k \in keys : \E g \in 1..Len(Made) : Rows(mem, Made[g]) = With(k)
               /\ \A g \in 1..Len(Made) :
                     /\ Columns(Made[g]) = Columns(dfs[last.d])
                     /\ \E k \in keys : Rows(mem, Made[g]) = With(k)
               /\ SumLen(Made, 1) = Len(last.before)

CsvRead == pc = "df" /\ last.op = "ReadCSV" /\ last.arg.csv.kind = "file"

Records == last.arg.csv.records

\* every record has as many fields as the first
Rectangular == \A i \in 1..Len(Records) : Len(Records[i]) = Len(Records[1])

Coerced1(record) == [j \in 1..Len(record) |-> inferType(record[j])]

\* col_0, col_1, ... as the contract spells them
StatedColName(i) == <<"c", "o", "l", "_", <<"0", "1", "2", "3">>[i + 1]>>

\* what the contract says ReadCSV returns for at least one record
CsvAsStated ==
    /\ last.err = "nil" /\ last.made = 1
    /\ IF last.arg.hasHeader
       THEN /\ Columns(Result) = Records[1]
            /\ Shape(mem, Result) = <<Len(Records) - 1, Len(Records[1])>>
            /\ ResultRows = [i \in 1..(Len(Records) - 1) |-> Coerced1(Records[i + 1])]
       ELSE /\ Columns(Result) = [i \in 1..Len(Records[1]) |-> StatedColName(i - 1)]
            /\ Shape(mem, Result) = <<Len(Records), Len(Records[1])>>
            /\ ResultRows = [i \in 1..Len(Records) |-> Coerced1(Records[i])]

\* C14 as stated: ReadCSV uses the first record as the column names and turns
\* every later record into one row, whatever the records' field counts are.
C14_AsStated ==
    CsvRead => IF Records = <<>> THEN last.err # "nil" /\ last.made = 0
               ELSE CsvAsStated

\* C14: when every record has as many fields as the first, ReadCSV with default
\* options uses the first record as the column names and turns every later record
\* into one row, in file order, each field coerced by inferType: k+1 records with
\* c header fields give shape (k, c) and Columns() equal to the header; with
\* WithHeader(false) every record is a data row and the columns are col_0 ..
\* col_(c-1).  A file with no records fails with an error and no DataFrame, and
\* so does a file in which some record has another field count than the first.
C14_ReadCSV ==
    CsvRead => IF Records = <<>> THEN last.err = ErrCSVEmpty /\ last.made = 0
               ELSE IF ~Rectangular THEN last.err = ErrReadCSV /\ last.made = 0
               ELSE CsvAsStated

C14_Witness ==
    /\ CsvRead
    /\ ~last.arg.hasHeader
    /\ Len(Records) = 3
    /\ Shape(mem, Result) = <<3, 2>>
    /\ ResultRows[3] = <<NaNV, Null>>

(***************************************************************************)
(* Termination.  A decode is one synchronous call on the calling thread    *)
(* with no suspension point, so a step that can be taken is taken: weak    *)
(* fairness of Next.                                                       *)
(***************************************************************************)
SpecLive == Init /\ [][Next]_vars /\ WF_vars(Next)

InLoop == pc \in {"parseXLSLoop", "parseBIFFDataLoop"}

Remaining == Len(data) - loop.pos

\* how far a call has come: every step but a loop iteration moves it on
Stage ==
    CASE pc = "ReadExcel" -> 0
      [] pc \in {"readXLSX", "readXLS"} -> 1
      [] pc \in {"loadSharedStrings", "parseXLS"} -> 2
      [] pc \in {"readWorksheet", "parseOLEXLS"} -> 3
      [] pc = "parseOLEXLSScan" -> 4
      [] pc \in {"parseXLSLoop", "parseBIFFDataLoop"} -> 5
      [] pc = "done" -> 6

\* an iteration of either record loop moves the cursor by at least the header
\* and never past the end of the buffer
LoopAdvances ==
    (InLoop /\ pc' = pc) => loop'.pos >= loop.pos + 4 /\ loop'.pos <= Len(data)

\* every step is a loop iteration or moves the call to a later stage, so a call
\* takes finitely many steps
Progress == (InLoop /\ pc' = pc /\ data' = data) \/ Stage' > Stage

\* while the loop condition holds an iteration can be taken
LoopCanStep ==
    (InLoop /\ LoopGuard(data, loop)) =>
        ENABLED <<parseXLSRecord \/ parseBIFFDataRecord>>_vars

\* between the dispatch on the extension and the record loop the step of the
\* current stage can be taken (the dispatch and the steps that build the
\* returned table are total functions of the state)
StageCanStep ==
    /\ pc = "readXLSX" => ENABLED <<readXLSXOpen>>_vars
    /\ pc = "loadSharedStrings" => ENABLED <<loadSharedStringsCall>>_vars
    /\ pc = "readXLS" => ENABLED <<readXLSOpen>>_vars
    /\ pc = "parseXLS" => ENABLED <<parseXLSSniff>>_vars
    /\ pc = "parseOLEXLS" => ENABLED <<parseOLEXLSProbe>>_vars
    /\ pc = "parseOLEXLSScan" => ENABLED <<parseOLEXLSScan>>_vars

\* with fewer than 4 bytes left, or after a failed read, the loop is left
StopsBelowFour == (InLoop /\ (Remaining < 4 \/ loop.brk)) => pc' = "done"

\* the loop condition is reader.Len() > 4: the loop is left with 4 bytes or
\* fewer, so a trailing header without payload is not read
StopsAtEnd == (InLoop /\ (Remaining <= 4 \/ loop.brk)) => pc' = "done"

\* leaving the loop is an error only when the raw path collected no row
EndIsClean ==
    (InLoop /\ pc' = "done") =>
        \/ ret'.err = "nil" /\ ret'.has
        \/ pc = "parseXLSLoop" /\ loop.rows = <<>> /\ ret'.err = ErrXLSNoData

NoRepeat(offsets) ==
    \A i, j \in 1..Len(offsets) : i # j => offsets[i] # offsets[j]

\* C15 as stated: every decode of a finite buffer runs to completion or
\* failure; each iteration of the record loop consumes at least the 4 header
\* bytes; the loop stops as soon as fewer than 4 bytes remain or a header read
\* fails, which is not itself an error; and the OLE2 probe and the stride scan
\* visit each offset at most once.
C15_AsStated ==
    /\ [][Progress]_vars
    /\ [][LoopAdvances]_vars
    /\ [][StopsBelowFour]_vars
    /\ [][EndIsClean]_vars
    /\ [] (LoopCanStep /\ StageCanStep)
    /\ [] NoRepeat(locator.fixedSeen \o locator.scanSeen)

\* C15: every decode of a finite buffer runs to completion or failure: every
\* step moves the call to a later stage or is an iteration of the record loop,
\* and each iteration consumes at least the 4 header bytes and stays inside the
\* buffer, so the steps of a call are finitely many and under the fairness of
\* SpecLive the call returns; the loop stops as soon as 4 bytes or fewer
\* remain or a read fails, which is not itself an error; the probe of the fixed
\* offsets visits each of them at most once and the stride scan visits each
\* offset at most once.
C15_DecodeTerminates ==
    /\ [][Progress]_vars
    /\ [][LoopAdvances]_vars
    /\ [][StopsAtEnd]_vars
    /\ [][EndIsClean]_vars
    /\ [] (LoopCanStep /\ StageCanStep)
    /\ [] (NoRepeat(locator.fixedSeen) /\ NoRepeat(locator.scanSeen))

\* a decode that ran the fixed probe, the stride scan and the record loop to
\* the end, the scan having tested again what the probe had tested
C15_Witness ==
    /\ pc = "done" /\ ret.err = "nil"
    /\ locator.phase = "scan"
    /\ Len(locator.fixedSeen) >= 2
    /\ locator.fixedSeen[1] = locator.scanSeen[2]
    /\ loop.pos > 8
    /\ Remaining < 4

\* a legacy stream was handed to its record reader and the call has returned
Decoded ==
    /\ pc = "done"
    /\ src.family \in {"raw", "ole"}
    /\ Len(src.places) = 1
    /\ src.recs # <<>>
    /\ src.family = "ole" => locator.offset = src.places[1].off
    /\ src.family = "raw" => Sniff(U16(disk.bytes, 0)) = "raw"

\* the records of the stream that are whole in the buffer
WholeRecs == IF src.cut = 0 THEN src.recs ELSE CompleteRecs

\* the rows the well-formed records give, each through its own parser
WholeRows == DecodedFrom(WholeRecs, src.family, <<>>, <<>>)

\* the table is exactly rows: the first names the columns, the others follow
TableIs(rows) == TableStartsWith(rows) /\ Len(TableRows) = Len(rows) - 1

\* C16: a legacy record whose declared length is inconsistent with the
\* remaining buffer, or whose fields exceed a defensive bound, is skipped
\* entirely: it contributes no row, none of its payload bytes are read as the
\* header of another record, the decode is not aborted, and every well-formed
\* record before and after it is still decoded into its row.
C16_SkippedEntirely ==
    (Decoded /\ (src.cut = 0 \/ Truncated) /\ WholeRows # <<>>) => TableIs(WholeRows)

\* the label and number records of the stream that decode to a partial row
CellRecs ==
    {i \in 1..Len(src.recs) :
        /\ U16(src.recs[i], 0) \in {RecNumber, RecLabel}
        /\ RowOf(src.recs[i], "ole", <<>>).ok}

\* the row and column index a cell record carries
RowIndex(rec) == U16(rec, 4)
ColumnIndex(rec) == U16(rec, 6)

OnlyCells == \A i \in 2..Len(src.recs) : i \in CellRecs

\* C17: label and number records decode to partial rows keyed by column index
\* and are merged by row index: two cell records with the same row index
\* contribute to the same output row, so the output rows do not grow with the
\* number of cells in a sheet row.
C17_MergedByRow ==
    (Decoded /\ src.family = "ole" /\ src.cut = 0 /\ OnlyCells) =>
        /\ Len(loop.rows) = Cardinality({RowIndex(src.recs[i]) : i \in CellRecs})
        /\ \E f \in [CellRecs -> 1..Len(loop.rows)] :
              \A i \in CellRecs :
                 /\ Len(loop.rows[f[i]]) > ColumnIndex(src.recs[i])
                 /\ loop.rows[f[i]][ColumnIndex(src.recs[i]) + 1]
                       = RowOf(src.recs[i], "ole", <<>>).row[ColumnIndex(src.recs[i]) + 1]
                 /\ \A j \in CellRecs :
                       RowIndex(src.recs[i]) = RowIndex(src.recs[j]) <=> f[i] = f[j]

Payload(rec) == SubSeq(rec, 5, Len(rec))

NumberRecs == {i \in 1..Len(src.recs) : U16(src.recs[i], 0) = RecNumber}

\* number records in the 14-byte layout: row, column, format index, value
FixedLayout == {i \in NumberRecs : Len(Payload(src.recs[i])) = 14}

OnlyNumbers == \A i \in 2..Len(src.recs) : i \in NumberRecs

\* the partial row the contract gives a number record in the 14-byte layout
StatedNumberRow(rec) ==
    [c \in 1..(ColumnIndex(rec) + 1) |->
        IF c = ColumnIndex(rec) + 1 THEN FormatFloat2(Slice(Payload(rec), 6, 8))
        ELSE <<>>]

\* C18: in the OLE path every number record (0x0203) with the 14-byte fixed
\* layout (row, column, format index, 8-byte value) and column at most 255 is
\* decoded to a partial row of length column+1 that holds the text of the value
\* at the column index and is empty elsewhere; a payload shorter than 14 bytes
\* or a column above 255 yields no row.
C18_NumberDecoded ==
    (Decoded /\ src.family = "ole" /\ src.cut = 0 /\ OnlyNumbers) =>
        LET good == {i \in FixedLayout : ColumnIndex(src.recs[i]) <= MaxCol}
            bad  == {i \in NumberRecs :
                        \/ Len(Payload(src.recs[i])) < 14
                        \/ ColumnIndex(src.recs[i]) > MaxCol}
        IN  /\ \A i \in good :
                  \E r \in 1..Len(loop.rows) : loop.rows[r] = StatedNumberRow(src.recs[i])
            /\ Len(loop.rows) <= Cardinality(NumberRecs \ bad)

\* the sanitizer the contract states: printable ASCII, tab, newline and
\* carriage return are kept in order, every other byte is dropped
StatedClean(bytes) ==
    SelectSeq(bytes, LAMBDA b : (b >= 32 /\ b <= 126) \/ b = 9 \/ b = 10 \/ b = 13)

\* label records of the stream that decode, and the bytes of their text
LabelRecs ==
    {i \in 1..Len(src.recs) :
        U16(src.recs[i], 0) = RecLabel /\ RowOf(src.recs[i], "ole", <<>>).ok}

LabelBytes(rec) == Slice(Payload(rec), 8, U16(Payload(rec), 6))

\* row records of the stream that decode, and their untyped cells: <<i, k>> is
\* cell k (from 0) of record i
RowRecs ==
    {i \in 1..Len(src.recs) :
        U16(src.recs[i], 0) = RecRow /\ RowOf(src.recs[i], src.family, <<>>).ok}

CellAt(rec, k) == 6 + 8 * k

UntypedCells ==
    {c \in UNION {{<<i, k>> : k \in 0..MaxCells} : i \in RowRecs} :
        /\ c[2] <= U16(Payload(src.recs[c[1]]), 4) - U16(Payload(src.recs[c[1]]), 2)
        /\ Len(Payload(src.recs[c[1]])) - CellAt(src.recs[c[1]], c[2]) >= 8
        /\ U16(Payload(src.recs[c[1]]), CellAt(src.recs[c[1]], c[2]))
              \notin {CellNumber, CellString}}

CellBytes(c) == Slice(Payload(src.recs[c[1]]), CellAt(src.recs[c[1]], c[2]) + 2, 6)

\* C19: every string taken from a legacy payload (the text of a label record
\* and the untyped cells of a row record) is sanitized the same way: the result
\* keeps, in order, exactly the bytes that are printable ASCII (32..126) or tab,
\* newline or carriage return, and drops NUL, other control bytes, DEL and
\* bytes of 128 and above.
C19_Sanitized ==
    (Decoded /\ src.cut = 0) =>
        /\ src.family = "ole" =>
              \A i \in LabelRecs :
                 \E r \in 1..Len(loop.rows) :
                    /\ Len(loop.rows[r]) = ColumnIndex(src.recs[i]) + 1
                    /\ loop.rows[r][ColumnIndex(src.recs[i]) + 1]
                          = BytesToString(StatedClean(LabelBytes(src.recs[i])))
        /\ \A c \in UntypedCells :
              \E r \in 1..Len(loop.rows) :
                 /\ Len(loop.rows[r]) > c[2]
                 /\ loop.rows[r][c[2] + 1] = BytesToString(StatedClean(CellBytes(c)))

\* what parseXLS returns for the same records, cut the same way, embedded in a
\* compound document at the first fixed offset
Embedded == parseXLS(<<>>, DiskOf(OleSrc(src.recs, src.cut, MinOLELen)).bytes)

\* C20: the legacy record stream reader is the same for both paths: a stream
\* decodes to the same outcome whether it is the whole file or embedded in a
\* compound document: the same column names, the same rows in the same order,
\* and the same error or no-error result (also for a stream that yields no row).
C20_SameOutcome ==
    (Decoded /\ src.family = "raw" /\ src.cut = 0) =>
        /\ Embedded.has = ret.has
        /\ Embedded.err = ret.err
        /\ ret.has => /\ Columns(Embedded.df) = Columns(ret.df)
                      /\ Rows(Embedded.mem, Embedded.df) = TableRows

(***************************************************************************)
(* Head and AddRow on the frames a caller holds.                           *)
(***************************************************************************)
Min(a, b) == IF a < b THEN a ELSE b

\* Head(n) with 0 <= n returned: the first min(n, rows) rows of the source,
\* under the source's column names, the source as it was
HeadIsPrefix ==
    (pc = "df" /\ last.op = "Head") =>
        /\ last.made = 1
        /\ Columns(Result) = Columns(dfs[last.d])
        /\ ResultRows = SubSeq(last.before, 1, Min(last.arg, Len(last.before)))
        /\ SourceRows = last.before

\* this step is an AddRow call on frame d
AddRowOn(d) == last'.n = last.n + 1 /\ last'.op = "AddRow" /\ last'.d = d

\* this step leaves the rows of frame d as they were
RowsKept(d) == Rows(mem', dfs'[d]) = Rows(mem, dfs[d])

\* for h := df.Head(n): AddRow on h keeps df's rows, AddRow on df keeps h's
HeadIndependent ==
    \A p \in last.heads :
        /\ AddRowOn(p[2]) => RowsKept(p[1])
        /\ AddRowOn(p[1]) => RowsKept(p[2])

\* C21: for every n >= 0, h := df.Head(n) has the first min(n, rows) rows of
\* df, and afterwards no AddRow call on h changes df's row count, row order or
\* row contents, and no AddRow call on df changes h's rows.
C21_HeadIndependent == [] HeadIsPrefix /\ [][HeadIndependent]_vars

(***************************************************************************)
(* SpecCSV: a CSV file is read with ReadCSV, the DataFrame is written with *)
(* ToCSV to a file (held in disk.files as the records a reader yields),    *)
(* and that file is read with ReadCSV again; the three calls use the same  *)
(* header option, which last.arg keeps with the first file.                *)
(***************************************************************************)
CsvFieldPool ==
    {<<>>, <<"7">>, <<"2", ".", "5">>, <<"2", ".", "0">>, <<"x">>, <<"T">>,
     <<"n", "a", "n">>, <<"1", "e", "6">>}

CsvRecordPool(w) ==
    IF w = 1 THEN {<<f>> : f \in CsvFieldPool}
    ELSE {<<NameCol, AgeCol>>, <<<<"B", "o", "b">>, <<"3", "0">>>>,
          <<<<>>, <<"0", ".", "5">>>>, <<<<"-", "1">>, <<"1", "e", "-", "5">>>>}

RoundTripFiles ==
    {CsvFile(rs) : rs \in UNION {[1..k -> CsvRecordPool(w)] :
                                    k \in 1..MaxCsvRecords, w \in 1..2}}
    \cup {[kind |-> "missing", records |-> <<>>], CsvFile(<<>>)}

InitCSV ==
    /\ pc = "csv"
    /\ dfs = <<>> /\ mem = <<>> /\ last = NoLast /\ panicked = FALSE
    /\ filename = <<>> /\ sheetName = <<>> /\ disk = NoDisk /\ src = NoSrc
    /\ opened = FALSE /\ erStrings = <<>> /\ data = <<>> /\ loop = LoopStart
    /\ locator = NoLocator /\ ret = NoRet
    /\ text = <<>> /\ value = Null

\* the file ToCSV left on disk
CsvOnDisk == [kind |-> disk.kind, records |-> disk.files]

csvIdle == <<filename, sheetName, src, opened, erStrings, data, loop, locator, ret,
             coerceVars, panicked>>

ReadCSVFile ==
    /\ pc = "csv"
    /\ \E csv \in RoundTripFiles, hasHeader \in BOOLEAN :
          LET r == ReadCSV(mem, csv, hasHeader)
          IN  /\ dfs' = IF r.has THEN <<r.df>> ELSE <<>>
              /\ mem' = r.mem
              /\ last' = [Did("ReadCSV", 0, <<>>, <<>>, r.err) EXCEPT
                             !.arg = [csv |-> csv, hasHeader |-> hasHeader],
                             !.made = Len(dfs')]
              /\ pc' = IF r.has THEN "read" ELSE "failed"
    /\ UNCHANGED <<disk, csvIdle>>

ToCSVCall ==
    /\ pc = "read"
    /\ LET w == ToCSV(mem, dfs[1], last.arg.hasHeader)
       IN  /\ disk' = [kind |-> w.file.kind, files |-> w.file.records, bytes |-> <<>>]
           /\ last' = [last EXCEPT !.op = "ToCSV", !.d = 1, !.err = w.err,
                                   !.before = Rows(mem, dfs[1]), !.made = 0,
                                   !.n = @ + 1]
    /\ pc' = "written"
    /\ UNCHANGED <<dfs, mem, csvIdle>>

ReadCSVBack ==
    /\ pc = "written"
    /\ LET r == ReadCSV(mem, CsvOnDisk, last.arg.hasHeader)
       IN  /\ dfs' = dfs \o (IF r.has THEN <<r.df>> ELSE <<>>)
           /\ mem' = r.mem
           /\ last' = [last EXCEPT !.op = "ReadCSV", !.d = 0, !.err = r.err,
                                   !.before = <<>>,
                                   !.made = IF r.has THEN 1 ELSE 0, !.n = @ + 1]
    /\ pc' = "back"
    /\ UNCHANGED <<disk, csvIdle>>

NextCSV ==
    \/ ReadCSVFile
    \/ ToCSVCall
    \/ ReadCSVBack

SpecCSV == InitCSV /\ [][NextCSV]_vars

\* the cells of the frame first read, as inferType made them
FirstRows == Rows(mem, dfs[1])

\* C22: a DataFrame returned by ReadCSV, written with ToCSV and read back with
\* ReadCSV under the same header option, comes back with the same column
\* names, the same number of rows and, cell by cell, the same typed values,
\* the Null cells of empty fields included.
C22_RoundTrip ==
    pc = "back" =>
        /\ last.err = "nil" /\ Len(dfs) = 2
        /\ Columns(dfs[2]) = Columns(dfs[1])
        /\ Len(Rows(mem, dfs[2])) = Len(FirstRows)
        /\ \A i \in 1..Len(FirstRows) : \A j \in 1..Len(FirstRows[i]) :
              Rows(mem, dfs[2])[i][j] = FirstRows[i][j]

====
